---------------------------- MODULE Spec2Model ----------------------------
(***************************************************************************)
(* Model of the page parser of the Wishlist Quick Add content script       *)
(* (src/js/content.js).  A document is a snapshot of what the parser's DOM *)
(* queries return; the parser's methods are operators computed the way the *)
(* code computes them, and every operation of the script is an action.     *)
(* Strings are sequences of one-character strings, so that the regular     *)
(* expressions, trim, includes and parseFloat of the code are computed on  *)
(* characters.                                                             *)
(***************************************************************************)
EXTENDS Integers, Sequences, FiniteSets, TLC

VARIABLES doc,      \* the document and location the parser reads;
                    \* the popup, for the handlers of the popup
          arg,      \* the input of the operation performed last
          op,       \* the operation performed last ("none" before any)
          ret       \* what that operation returned (or Thrown); the
                    \* responses sent so far, for the listener

vars == <<doc, arg, op, ret>>

---------------------------------------------------------------------------
(* JavaScript values *)

Null == [t |-> "null"]
Undefined == [t |-> "undefined"]
NaN == [t |-> "NaN"]
Bool(b) == [t |-> "boolean", b |-> b]
Str(s) == [t |-> "string", s |-> s]
\* the number m * 10^(-e), with no trailing zero among the e fraction digits
Num(m, e) == [t |-> "number", m |-> m, e |-> e]
\* a DOM object that is not a string, such as the DocumentFragment of
\* HTMLTemplateElement.content or the SVGAnimatedString of SVGAElement.href
DomObject == [t |-> "domobject"]
Arr(items) == [t |-> "array", items |-> items]
Obj(f) == [t |-> "object", f |-> f]
\* the outcome of an operation that ended in an exception
Thrown == [t |-> "throw"]

Truthy(v) ==
  CASE v.t = "null" -> FALSE
    [] v.t = "undefined" -> FALSE
    [] v.t = "NaN" -> FALSE
    [] v.t = "boolean" -> v.b
    [] v.t = "string" -> v.s # <<>>
    [] v.t = "number" -> v.m # 0
    [] OTHER -> TRUE

\* a || b, and  if (a) return a;  followed by b
Or(a, b) == IF Truthy(a) THEN a ELSE b

\* if (found !== null) return found;  followed by rest
OrElse(found, rest) == IF found # Null THEN found ELSE rest

---------------------------------------------------------------------------
(* Characters and strings *)

Digits == {"0", "1", "2", "3", "4", "5", "6", "7", "8", "9"}
DigitVal == ("0" :> 0) @@ ("1" :> 1) @@ ("2" :> 2) @@ ("3" :> 3) @@ ("4" :> 4)
            @@ ("5" :> 5) @@ ("6" :> 6) @@ ("7" :> 7) @@ ("8" :> 8) @@ ("9" :> 9)
DigitChar == <<"0", "1", "2", "3", "4", "5", "6", "7", "8", "9">>
\* the characters the regular expression class \s and trim() treat as blank
WhiteSpace == {" ", "\t", "\n", "\r"}

Drop(s, n) == SubSeq(s, n + 1, Len(s))
Take(s, n) == SubSeq(s, 1, n)

\* String.prototype.startsWith
startsWith(s, p) == Len(p) <= Len(s) /\ Take(s, Len(p)) = p

\* String.prototype.includes
includes(s, p) == \E i \in 0..(Len(s) - Len(p)) : SubSeq(s, i + 1, i + Len(p)) = p

RECURSIVE TrimStart(_)
TrimStart(s) == IF s # <<>> /\ Head(s) \in WhiteSpace THEN TrimStart(Tail(s)) ELSE s

RECURSIVE TrimEnd(_)
TrimEnd(s) ==
  IF s # <<>> /\ s[Len(s)] \in WhiteSpace THEN TrimEnd(Take(s, Len(s) - 1)) ELSE s

\* String.prototype.trim
trim(s) == TrimEnd(TrimStart(s))

\* str.replace(/[class]/g, ''): the characters of s that are in keep
RECURSIVE Filter(_, _)
Filter(s, keep) ==
  IF s = <<>> THEN <<>>
  ELSE (IF Head(s) \in keep THEN <<Head(s)>> ELSE <<>>) \o Filter(Tail(s), keep)

\* str.replace(',', '.'): only the first occurrence of a string pattern is replaced
RECURSIVE ReplaceFirst(_, _, _)
ReplaceFirst(s, c, d) ==
  IF s = <<>> THEN <<>>
  ELSE IF Head(s) = c THEN <<d>> \o Tail(s)
  ELSE <<Head(s)>> \o ReplaceFirst(Tail(s), c, d)

\* the longest prefix of s made of digits
RECURSIVE DigitRun(_)
DigitRun(s) ==
  IF s # <<>> /\ Head(s) \in Digits THEN <<Head(s)>> \o DigitRun(Tail(s)) ELSE <<>>

AllDigits(s) == \A i \in 1..Len(s) : s[i] \in Digits

RECURSIVE IntOf(_)
IntOf(ds) ==
  IF ds = <<>> THEN 0
  ELSE IntOf(Take(ds, Len(ds) - 1)) * 10 + DigitVal[ds[Len(ds)]]

RECURSIVE NatChars(_)
NatChars(n) ==
  IF n < 10 THEN <<DigitChar[n + 1]>>
  ELSE NatChars(n \div 10) \o <<DigitChar[(n % 10) + 1]>>

RECURSIVE Normalized(_, _)
Normalized(m, e) ==
  IF e > 0 /\ m % 10 = 0 THEN Normalized(m \div 10, e - 1) ELSE Num(m, e)

\* parseFloat on a string of digits, '.', ',', '-' and blanks (its callers strip
\* every other character first, so no exponent or "Infinity" can occur): leading
\* blanks are skipped, then the longest prefix that is a decimal literal is read.
parseFloat(str) ==
  LET s0 == TrimStart(str)
      signed == s0 # <<>> /\ Head(s0) \in {"-", "+"}
      neg == s0 # <<>> /\ Head(s0) = "-"
      s1 == IF signed THEN Tail(s0) ELSE s0
      ip == DigitRun(s1)
      s2 == Drop(s1, Len(ip))
      fp == IF s2 # <<>> /\ Head(s2) = "." THEN DigitRun(Tail(s2)) ELSE <<>>
      mag == Normalized(IntOf(ip \o fp), Len(fp))
  IN IF ip = <<>> /\ fp = <<>> THEN NaN
     ELSE IF neg THEN Num(0 - mag.m, mag.e) ELSE mag

\* Number.prototype.toString for the decimals of the model
RECURSIVE PadZeros(_, _)
PadZeros(ds, n) == IF Len(ds) >= n THEN ds ELSE PadZeros(<<"0">> \o ds, n)

NumberString(v) ==
  LET mag == IF v.m < 0 THEN 0 - v.m ELSE v.m
      ds == PadZeros(NatChars(mag), v.e + 1)
      whole == Take(ds, Len(ds) - v.e)
      body == IF v.e = 0 THEN whole ELSE whole \o <<".">> \o Drop(ds, Len(ds) - v.e)
  IN IF v.m < 0 THEN <<"-">> \o body ELSE body

ObjectString == <<"[", "o", "b", "j", "e", "c", "t", " ", "O", "b", "j", "e", "c", "t", "]">>

\* String(v) and v.toString()
RECURSIVE String(_)
String(v) ==
  CASE v.t = "string" -> v.s
    [] v.t = "number" -> NumberString(v)
    [] v.t = "NaN" -> <<"N", "a", "N">>
    [] v.t = "boolean" -> IF v.b THEN <<"t", "r", "u", "e">> ELSE <<"f", "a", "l", "s", "e">>
    [] v.t = "null" -> <<"n", "u", "l", "l">>
    [] v.t = "undefined" -> <<"u", "n", "d", "e", "f", "i", "n", "e", "d">>
    [] v.t = "array" ->
         IF v.items = <<>> THEN <<>>
         ELSE LET first == IF v.items[1].t \in {"null", "undefined"} THEN <<>>
                           ELSE String(v.items[1])
              IN IF Len(v.items) = 1 THEN first
                 ELSE first \o <<",">> \o String(Arr(Tail(v.items)))
    [] OTHER -> ObjectString

---------------------------------------------------------------------------
(* Price normalizers *)

\* /^(\d+)[.,](\d{2})(\d+)$/ : the position of the separator when s matches, else 0
DuplicateSep(s) ==
  LET ip == DigitRun(s)
      i == Len(ip) + 1
  IN IF /\ ip # <<>>
        /\ i <= Len(s)
        /\ s[i] \in {".", ","}
        /\ Len(s) >= i + 3
        /\ AllDigits(Drop(s, i))
     THEN i ELSE 0

\* /,\d{2}$/ and /\.\d{2}$/
EndsSepTwoDigits(s, c) ==
  /\ Len(s) >= 3
  /\ s[Len(s) - 2] = c
  /\ s[Len(s) - 1] \in Digits
  /\ s[Len(s)] \in Digits

NumberOrNull(price) == IF price = NaN THEN Null ELSE price

\* formattedPrice without the test of the European format: the commas are
\* always dropped as thousands separators
formattedPriceUS(cleaned) ==
  NumberOrNull(parseFloat(Filter(cleaned, Digits \cup {".", "-"})))

\* parsePrice from the test of the two number formats on
formattedPrice(cleaned) ==
  IF EndsSepTwoDigits(cleaned, ",")
  THEN NumberOrNull(parseFloat(ReplaceFirst(Filter(cleaned, Digits \cup {",", "-"}), ",", ".")))
  ELSE NumberOrNull(parseFloat(Filter(cleaned, Digits \cup {".", "-"})))

\* cleanedPrice with only intPart.startsWith(suffix) tested: a suffix longer
\* than the integer part is not taken for a repetition
cleanedPriceOneWay(cleaned, sep) ==
  LET intPart == Take(cleaned, sep - 1)
      decPart == SubSeq(cleaned, sep + 1, sep + 2)
      suffix == Drop(cleaned, sep + 2)
  IN IF cleaned = <<>> THEN Null
     ELSE IF sep > 0 /\ startsWith(intPart, suffix)
     THEN parseFloat(intPart \o <<".">> \o decPart)
     ELSE formattedPrice(cleaned)

\* parsePrice on the cleaned text, sep being where it matches duplicatePattern
cleanedPrice(cleaned, sep) ==
  LET intPart == Take(cleaned, sep - 1)
      decPart == SubSeq(cleaned, sep + 1, sep + 2)
      suffix == Drop(cleaned, sep + 2)
  IN IF cleaned = <<>> THEN Null
     ELSE IF sep > 0 /\ (startsWith(intPart, suffix) \/ startsWith(suffix, intPart))
     THEN parseFloat(intPart \o <<".">> \o decPart)
     ELSE formattedPrice(cleaned)

\* parsePrice on the text that its first replace and trim leave
trimmedPrice(cleaned) == cleanedPrice(cleaned, DuplicateSep(cleaned))

parsePrice(priceStr) ==
  IF ~Truthy(priceStr) THEN Null
  ELSE trimmedPrice(trim(Filter(String(priceStr), Digits \cup {".", ",", "-"} \cup WhiteSpace)))

AmazonCom == <<"a", "m", "a", "z", "o", "n", ".", "c", "o", "m">>
DotComDot == <<".", "c", "o", "m", ".">>

\* parseAmazonPrice on the text that the removal of the currency symbols leaves
amazonCleanedPrice(cleaned, isUSFormat) ==
  LET kept == Digits \cup {".", ","} \cup WhiteSpace
      noDots == ReplaceFirst(Filter(cleaned, kept \ {"."}), ",", ".")
      noCommas == Filter(cleaned, kept \ {","})
  IN IF cleaned = <<>> THEN Null
     ELSE IF isUSFormat THEN NumberOrNull(parseFloat(noCommas))
     ELSE IF EndsSepTwoDigits(cleaned, ",") THEN NumberOrNull(parseFloat(noDots))
     ELSE IF EndsSepTwoDigits(cleaned, ".") THEN NumberOrNull(parseFloat(noCommas))
     ELSE NumberOrNull(parseFloat(noDots))

\* parseAmazonPrice on the trimmed text
amazonTrimmedPrice(trimmed, hostname) ==
  amazonCleanedPrice(
    trim(Filter(trimmed, Digits \cup {".", ","} \cup WhiteSpace)),
    \/ includes(trimmed, <<"$">>)
    \/ (includes(hostname, AmazonCom) /\ ~includes(hostname, DotComDot)))

parseAmazonPrice(priceStr, hostname) ==
  IF ~Truthy(priceStr) THEN Null ELSE amazonTrimmedPrice(trim(String(priceStr)), hostname)

---------------------------------------------------------------------------
(* The document: location, title and the elements in document order.  An   *)
(* element carries the attributes and DOM properties the parser reads.     *)

\* a descendant-free element with no attribute set
BaseEl ==
  [tag |-> "div", id |-> "", class |-> {}, aSize |-> "", anc |-> {},
   itemprop |-> "", name |-> "", property |-> "", rel |-> "", type |-> "",
   contentAttr |-> Undefined, valueAttr |-> Undefined, aPrice |-> Undefined,
   srcAttr |-> Undefined, hrefAttr |-> Undefined, oldHires |-> Undefined,
   dynamicImage |-> Undefined, naturalWidth |-> 0, naturalHeight |-> 0,
   scrollWidth |-> 0, scrollHeight |-> 0, width |-> 0, height |-> 0,
   text |-> <<>>, json |-> [t |-> "malformed"]]

NoElement == Null

\* The text of a <script type="application/ld+json"> is kept as what JSON.parse
\* makes of it: the JSON value it denotes, or Malformed for a text that is not JSON.
Malformed == [t |-> "malformed"]

\* JSON.parse(script.textContent): the value, or a SyntaxError
JSONparse(el) == IF el.json = Malformed THEN Thrown ELSE el.json

\* element.textContent
textContent(el) == Str(el.text)

\* element.content: the reflected attribute of a <meta>, the DocumentFragment of
\* a <template>, and no property at all on any other element
content(el) ==
  CASE el.tag = "meta" -> Or(el.contentAttr, Str(<<>>))
    [] el.tag = "template" -> DomObject
    [] OTHER -> Undefined

\* element.value: the value of a form control, no property on other elements
value(el) ==
  IF el.tag = "input" THEN Or(el.valueAttr, Str(<<>>)) ELSE Undefined

\* element.dataset.aPrice
datasetAPrice(el) == el.aPrice

ClassPrice == <<"p", "r", "i", "c", "e">>
ClassProductPrice == <<"p", "r", "o", "d", "u", "c", "t", "-", "p", "r", "i", "c", "e">>
ClassCapPrice == <<"P", "r", "i", "c", "e">>
ClassAmount == <<"a", "m", "o", "u", "n", "t">>
ClassCost == <<"c", "o", "s", "t">>
ClassAPrice == <<"a", "-", "p", "r", "i", "c", "e">>
ClassAOffscreen == <<"a", "-", "o", "f", "f", "s", "c", "r", "e", "e", "n">>
ClassAPriceWhole == <<"a", "-", "p", "r", "i", "c", "e", "-", "w", "h", "o", "l", "e">>
ClassAPriceFraction ==
  <<"a", "-", "p", "r", "i", "c", "e", "-", "f", "r", "a", "c", "t", "i", "o", "n">>
ClassAPriceSymbol ==
  <<"a", "-", "p", "r", "i", "c", "e", "-", "s", "y", "m", "b", "o", "l">>

HasClass(el, c) == c \in el.class
\* [class*="..."]: the class attribute contains the substring
ClassContains(el, sub) == \E c \in el.class : includes(c, sub)
UnderId(el, id) == \E a \in el.anc : a.id = id

\* whether the element matches a selector the parser uses
Matches(el, sel) ==
  CASE sel = "link[rel=\"canonical\"]" -> el.tag = "link" /\ el.rel = "canonical"
    [] sel = "[itemprop=\"name\"]" -> el.itemprop = "name"
    [] sel = "[itemprop=\"description\"]" -> el.itemprop = "description"
    [] sel = "[itemprop=\"image\"]" -> el.itemprop = "image"
    [] sel = "[itemprop=\"price\"]" -> el.itemprop = "price"
    [] sel = "[itemprop=\"priceCurrency\"]" -> el.itemprop = "priceCurrency"
    [] sel = "h1" -> el.tag = "h1"
    [] sel = "img" -> el.tag = "img"
    [] sel = "meta" -> el.tag = "meta"
    [] sel = "script[type=\"application/ld+json\"]" ->
         el.tag = "script" /\ el.type = "application/ld+json"
    [] sel = ".price" -> HasClass(el, ClassPrice)
    [] sel = ".product-price" -> HasClass(el, ClassProductPrice)
    [] sel = ".Price" -> HasClass(el, ClassCapPrice)
    [] sel = "#price" -> el.id = "price"
    [] sel = "[class*=\"price\"]" -> ClassContains(el, ClassPrice)
    [] sel = "[class*=\"Price\"]" -> ClassContains(el, ClassCapPrice)
    [] sel = ".amount" -> HasClass(el, ClassAmount)
    [] sel = ".cost" -> HasClass(el, ClassCost)
    [] sel = "#corePrice_feature_div .a-offscreen" ->
         HasClass(el, ClassAOffscreen) /\ UnderId(el, "corePrice_feature_div")
    [] sel = "#corePriceDisplay_desktop_feature_div .a-offscreen" ->
         HasClass(el, ClassAOffscreen) /\ UnderId(el, "corePriceDisplay_desktop_feature_div")
    [] sel = ".a-price[data-a-size=\"xl\"] .a-offscreen" ->
         /\ HasClass(el, ClassAOffscreen)
         /\ \E a \in el.anc : HasClass(a, ClassAPrice) /\ a.aSize = "xl"
    [] sel = ".a-price[data-a-size=\"l\"] .a-offscreen" ->
         /\ HasClass(el, ClassAOffscreen)
         /\ \E a \in el.anc : HasClass(a, ClassAPrice) /\ a.aSize = "l"
    [] sel = "#priceblock_ourprice" -> el.id = "priceblock_ourprice"
    [] sel = "#priceblock_dealprice" -> el.id = "priceblock_dealprice"
    [] sel = "#priceblock_saleprice" -> el.id = "priceblock_saleprice"
    [] sel = ".a-price .a-offscreen" ->
         HasClass(el, ClassAOffscreen) /\ \E a \in el.anc : HasClass(a, ClassAPrice)
    [] sel = "input[name=\"displayedPrice\"]" -> el.tag = "input" /\ el.name = "displayedPrice"
    [] sel = "#priceValue" -> el.id = "priceValue"
    [] sel = "[data-a-price]" -> el.aPrice # Undefined
    [] sel = ".a-price-whole" -> HasClass(el, ClassAPriceWhole)
    [] sel = ".a-price-fraction" -> HasClass(el, ClassAPriceFraction)
    [] sel = ".a-price-symbol, #priceblock_ourprice, #corePrice_feature_div .a-offscreen" ->
         \/ HasClass(el, ClassAPriceSymbol)
         \/ el.id = "priceblock_ourprice"
         \/ (HasClass(el, ClassAOffscreen) /\ UnderId(el, "corePrice_feature_div"))
    [] sel = "#landingImage, #imgBlkFront, #ebooksImgBlkFront" ->
         el.id \in {"landingImage", "imgBlkFront", "ebooksImgBlkFront"}
    [] sel = "#altImages, #imageBlock_feature_div" ->
         el.id \in {"altImages", "imageBlock_feature_div"}
    [] OTHER -> FALSE

Least(S) == CHOOSE i \in S : \A j \in S : i <= j

\* the least index of a set of indices, or 0 when it is empty
FirstIndex(hits) == IF hits = {} THEN 0 ELSE Least(hits)

\* document.querySelectorAll / getElementsByTagName: the matches in document order
RECURSIVE SelectAll(_, _)
SelectAll(els, sel) ==
  IF els = <<>> THEN <<>>
  ELSE (IF Matches(Head(els), sel) THEN <<Head(els)>> ELSE <<>>) \o SelectAll(Tail(els), sel)

querySelectorAll(d, sel) == SelectAll(d.body, sel)

\* the first match of a list of matches, or null
FirstMatch(found) == IF found = <<>> THEN NoElement ELSE found[1]

\* document.querySelector: the first match in document order, or null
querySelector(d, sel) == FirstMatch(querySelectorAll(d, sel))

\* the loop of getMetaValue over the <meta> elements
metaContent(metas, name) ==
  LET i == FirstIndex({k \in 1..Len(metas) :
                         metas[k].property = name \/ metas[k].name = name})
  IN IF i = 0 THEN Null ELSE content(metas[i])

getMetaValue(d, name) == metaContent(querySelectorAll(d, "meta"), name)

HostAmazonDot == <<"a", "m", "a", "z", "o", "n", ".">>

isAmazon(d) == includes(d.hostname, HostAmazonDot)

---------------------------------------------------------------------------
(* JSON-LD walkers *)

\* data[key] of a parsed JSON value: undefined on a leaf or a missing key
Field(data, key) ==
  IF data.t = "object" /\ key \in DOMAIN data.f THEN data.f[key] ELSE Undefined

RECURSIVE findPriceInJsonLd(_)
RECURSIVE findPriceInItems(_)
\* the for loop of findPriceInJsonLd over the items of an array
findPriceInItems(items) ==
  IF items = <<>> THEN Null
  ELSE LET price == findPriceInJsonLd(Head(items))
       IN IF price # Null THEN price ELSE findPriceInItems(Tail(items))

findPriceInJsonLd(data) ==
  IF ~Truthy(data) THEN Null
  ELSE IF data.t = "array" THEN findPriceInItems(data.items)
  ELSE IF Truthy(Field(data, "offers")) THEN findPriceInJsonLd(Field(data, "offers"))
  ELSE IF Field(data, "price") # Undefined
  THEN parsePrice(Str(String(Field(data, "price"))))
  ELSE Null

RECURSIVE findCurrencyInJsonLd(_)
RECURSIVE findCurrencyInItems(_)
\* the for loop of findCurrencyInJsonLd over the items of an array
findCurrencyInItems(items) ==
  IF items = <<>> THEN Null
  ELSE LET currency == findCurrencyInJsonLd(Head(items))
       IN IF Truthy(currency) THEN currency ELSE findCurrencyInItems(Tail(items))

findCurrencyInJsonLd(data) ==
  IF ~Truthy(data) THEN Null
  ELSE IF data.t = "array" THEN findCurrencyInItems(data.items)
  ELSE IF Truthy(Field(data, "offers")) THEN findCurrencyInJsonLd(Field(data, "offers"))
  ELSE IF Truthy(Field(data, "priceCurrency")) THEN Field(data, "priceCurrency")
  ELSE Null

---------------------------------------------------------------------------
(* Price cascade *)

offscreenSelectors ==
  << "#corePrice_feature_div .a-offscreen",
     "#corePriceDisplay_desktop_feature_div .a-offscreen",
     ".a-price[data-a-size=\"xl\"] .a-offscreen",
     ".a-price[data-a-size=\"l\"] .a-offscreen",
     "#priceblock_ourprice",
     "#priceblock_dealprice",
     "#priceblock_saleprice",
     ".a-price .a-offscreen" >>

\* a || b on the results of querySelector
ElementOr(a, b) == IF a # NoElement THEN a ELSE b

\* Method 3 of getAmazonPrice on the two elements it selects
wholeFractionPrice(priceWhole, priceFraction) ==
  IF priceWhole = NoElement \/ Filter(priceWhole.text, Digits) = <<>> THEN Null
  ELSE NumberOrNull(parseFloat(
         Filter(priceWhole.text, Digits) \o <<".">>
         \o (IF priceFraction # NoElement THEN Filter(priceFraction.text, Digits)
             ELSE <<"0", "0">>)))

\* Method 3 of getAmazonPrice: the whole and fraction parts
amazonWholeFraction(d) ==
  wholeFractionPrice(querySelector(d, ".a-price-whole"), querySelector(d, ".a-price-fraction"))

\* Method 2 of getAmazonPrice on the element it selects
inputPrice(priceInput, hostname) ==
  IF priceInput # NoElement /\ Truthy(Or(value(priceInput), datasetAPrice(priceInput)))
  THEN parseAmazonPrice(Or(value(priceInput), datasetAPrice(priceInput)), hostname)
  ELSE Null

\* Method 2 of getAmazonPrice, then Method 3
amazonPriceInput(d) ==
  OrElse(inputPrice(ElementOr(querySelector(d, "input[name=\"displayedPrice\"]"),
                               ElementOr(querySelector(d, "#priceValue"),
                                         querySelector(d, "[data-a-price]"))),
                     d.hostname),
          amazonWholeFraction(d))

\* the body of the loop of Method 1 for the element of one selector
offscreenPrice(el, hostname) ==
  IF el = NoElement THEN Null ELSE parseAmazonPrice(textContent(el), hostname)

\* the loop of Method 1 of getAmazonPrice over the selectors
RECURSIVE priceFromOffscreen(_, _)
priceFromOffscreen(d, selectors) ==
  IF selectors = <<>> THEN Null
  ELSE OrElse(offscreenPrice(querySelector(d, Head(selectors)), d.hostname),
               priceFromOffscreen(d, Tail(selectors)))

getAmazonPrice(d) == OrElse(priceFromOffscreen(d, offscreenSelectors), amazonPriceInput(d))

priceSelectors ==
  << ".price", ".product-price", ".Price", "#price",
     "[class*=\"price\"]", "[class*=\"Price\"]",
     ".amount", ".cost" >>

\* the body of the heuristic loop for the element of one selector
selectedPrice(el) == IF el = NoElement THEN Null ELSE parsePrice(textContent(el))

\* the heuristic loop of getPrice over the selectors
RECURSIVE priceFromList(_, _)
priceFromList(d, selectors) ==
  IF selectors = <<>> THEN Null
  ELSE OrElse(selectedPrice(querySelector(d, Head(selectors))),
               priceFromList(d, Tail(selectors)))

\* the heuristic search of getPrice, its last tier
priceFromSelectors(d) == priceFromList(d, priceSelectors)

\* if (metaPrice) return this.parsePrice(metaPrice); and otherwise the rest
metaPriceOr(metaPrice, rest) == IF Truthy(metaPrice) THEN parsePrice(metaPrice) ELSE rest

\* getPrice from the price-amount meta tags on
priceFromMeta(d) ==
  metaPriceOr(Or(getMetaValue(d, "product:price:amount"), getMetaValue(d, "og:price:amount")),
              priceFromSelectors(d))

\* the body of the JSON-LD loop of getPrice for one script: the price found, or
\* null when the script holds none or the try block threw
scriptPrice(script) ==
  IF JSONparse(script) = Thrown THEN Null ELSE findPriceInJsonLd(JSONparse(script))

\* priceInScripts with the try block around the whole loop instead of around one
\* script: the first script that fails to parse ends the scan
RECURSIVE priceInScriptsAborting(_)
priceInScriptsAborting(scripts) ==
  IF scripts = <<>> \/ JSONparse(Head(scripts)) = Thrown THEN Null
  ELSE OrElse(findPriceInJsonLd(JSONparse(Head(scripts))),
               priceInScriptsAborting(Tail(scripts)))

\* the JSON-LD loop of getPrice over the scripts in document order
RECURSIVE priceInScripts(_)
priceInScripts(scripts) ==
  IF scripts = <<>> THEN Null
  ELSE OrElse(scriptPrice(Head(scripts)), priceInScripts(Tail(scripts)))

\* getPrice from the JSON-LD scripts on
priceFromJsonLd(d) ==
  OrElse(priceInScripts(querySelectorAll(d, "script[type=\"application/ld+json\"]")),
          priceFromMeta(d))

\* the itemprop=price tier of getPrice on the element it selects
schemaPriceOr(schemaPrice, rest) ==
  IF schemaPrice = NoElement THEN rest
  ELSE IF Truthy(content(schemaPrice)) THEN parsePrice(content(schemaPrice))
  ELSE OrElse(parsePrice(textContent(schemaPrice)), rest)

\* getPrice from the itemprop=price element on
priceFromSchema(d) == schemaPriceOr(querySelector(d, "[itemprop=\"price\"]"), priceFromJsonLd(d))

getPrice(d) ==
  OrElse(IF isAmazon(d) THEN getAmazonPrice(d) ELSE Null, priceFromSchema(d))

---------------------------------------------------------------------------
(* Currency *)

USD == Str(<<"U", "S", "D">>)
GBP == Str(<<"G", "B", "P">>)
EUR == Str(<<"E", "U", "R">>)
CAD == Str(<<"C", "A", "D">>)
AUD == Str(<<"A", "U", "D">>)
JPY == Str(<<"J", "P", "Y">>)
CNY == Str(<<"C", "N", "Y">>)
INR == Str(<<"I", "N", "R">>)
BRL == Str(<<"B", "R", "L">>)
MXN == Str(<<"M", "X", "N">>)
PLN == Str(<<"P", "L", "N">>)
SEK == Str(<<"S", "E", "K">>)
SGD == Str(<<"S", "G", "D">>)
AED == Str(<<"A", "E", "D">>)
SAR == Str(<<"S", "A", "R">>)
TRY == Str(<<"T", "R", "Y">>)

Amazon == <<"a", "m", "a", "z", "o", "n">>

\* the entries of domainCurrencyMap in insertion order, which is the order
\* Object.entries enumerates them in
domainCurrencyMap ==
  << [domain |-> Amazon \o <<".", "c", "o", "m">>, currency |-> USD],
     [domain |-> Amazon \o <<".", "c", "o", ".", "u", "k">>, currency |-> GBP],
     [domain |-> Amazon \o <<".", "d", "e">>, currency |-> EUR],
     [domain |-> Amazon \o <<".", "f", "r">>, currency |-> EUR],
     [domain |-> Amazon \o <<".", "i", "t">>, currency |-> EUR],
     [domain |-> Amazon \o <<".", "e", "s">>, currency |-> EUR],
     [domain |-> Amazon \o <<".", "n", "l">>, currency |-> EUR],
     [domain |-> Amazon \o <<".", "b", "e">>, currency |-> EUR],
     [domain |-> Amazon \o <<".", "c", "a">>, currency |-> CAD],
     [domain |-> Amazon \o <<".", "c", "o", "m", ".", "a", "u">>, currency |-> AUD],
     [domain |-> Amazon \o <<".", "c", "o", ".", "j", "p">>, currency |-> JPY],
     [domain |-> Amazon \o <<".", "c", "n">>, currency |-> CNY],
     [domain |-> Amazon \o <<".", "i", "n">>, currency |-> INR],
     [domain |-> Amazon \o <<".", "c", "o", "m", ".", "b", "r">>, currency |-> BRL],
     [domain |-> Amazon \o <<".", "c", "o", "m", ".", "m", "x">>, currency |-> MXN],
     [domain |-> Amazon \o <<".", "p", "l">>, currency |-> PLN],
     [domain |-> Amazon \o <<".", "s", "e">>, currency |-> SEK],
     [domain |-> Amazon \o <<".", "s", "g">>, currency |-> SGD],
     [domain |-> Amazon \o <<".", "a", "e">>, currency |-> AED],
     [domain |-> Amazon \o <<".", "s", "a">>, currency |-> SAR],
     [domain |-> Amazon \o <<".", "c", "o", "m", ".", "t", "r">>, currency |-> TRY] >>

\* the fallback of getAmazonCurrency: the symbol in the displayed price
symbolCurrency(priceElement) ==
  IF priceElement = NoElement THEN Null
  ELSE IF includes(priceElement.text, <<"$">>) THEN USD
  ELSE IF includes(priceElement.text, <<"£">>) THEN GBP
  ELSE IF includes(priceElement.text, <<"€">>) THEN EUR
  ELSE IF includes(priceElement.text, <<"¥">>) THEN JPY
  ELSE Null

\* the symbol fallback of getAmazonCurrency
amazonCurrencySymbol(d) ==
  symbolCurrency(
    querySelector(d, ".a-price-symbol, #priceblock_ourprice, #corePrice_feature_div .a-offscreen"))

\* the search by domain of getAmazonCurrency: the first entry whose domain the
\* hostname includes
amazonCurrencyByDomain(hostname) ==
  LET i == FirstIndex({k \in 1..Len(domainCurrencyMap) :
                         includes(hostname, domainCurrencyMap[k].domain)})
  IN IF i > 0 THEN domainCurrencyMap[i].currency ELSE Null

getAmazonCurrency(d) == OrElse(amazonCurrencyByDomain(d.hostname), amazonCurrencySymbol(d))

\* the body of the JSON-LD loop of getCurrency for one script: the currency found,
\* or null when the script holds none or the try block threw
scriptCurrency(script) ==
  IF JSONparse(script) = Thrown THEN Null ELSE findCurrencyInJsonLd(JSONparse(script))

\* the JSON-LD loop of getCurrency, and the default that follows it
RECURSIVE currencyInScripts(_)
currencyInScripts(scripts) ==
  IF scripts = <<>> THEN EUR
  ELSE Or(scriptCurrency(Head(scripts)), currencyInScripts(Tail(scripts)))

\* getCurrency from the price-currency meta tags on
currencyFromMeta(d) ==
  Or(Or(getMetaValue(d, "product:price:currency"), getMetaValue(d, "og:price:currency")),
     currencyInScripts(querySelectorAll(d, "script[type=\"application/ld+json\"]")))

\* the itemprop=priceCurrency tier of getCurrency on the element it selects
schemaCurrencyOr(schemaCurrency, rest) ==
  IF schemaCurrency # NoElement
  THEN Or(content(schemaCurrency), textContent(schemaCurrency))
  ELSE rest

\* getCurrency from the itemprop=priceCurrency element on
currencyFromSchema(d) ==
  schemaCurrencyOr(querySelector(d, "[itemprop=\"priceCurrency\"]"), currencyFromMeta(d))

getCurrency(d) ==
  Or(IF isAmazon(d) THEN getAmazonCurrency(d) ELSE Null, currencyFromSchema(d))

---------------------------------------------------------------------------
(* Title *)

\* str.replace(/\s+/g, ' '): every run of blanks becomes one space
RECURSIVE CollapseBlanks(_)
CollapseBlanks(s) ==
  IF s = <<>> THEN <<>>
  ELSE IF Head(s) \in WhiteSpace THEN <<" ">> \o CollapseBlanks(TrimStart(s))
  ELSE <<Head(s)>> \o CollapseBlanks(Tail(s))

\* str.replace(/[\n\r\t]/g, ' ')
RECURSIVE ReplaceBreaks(_)
ReplaceBreaks(s) ==
  IF s = <<>> THEN <<>>
  ELSE <<IF Head(s) \in {"\n", "\r", "\t"} THEN " " ELSE Head(s)>> \o ReplaceBreaks(Tail(s))

\* a cleaning that would trim and leave the inner whitespace as it is
cleanStringTrimmed(str) ==
  IF ~Truthy(str) THEN Str(<<>>)
  ELSE Str(trim(str.s))

cleanString(str) ==
  IF ~Truthy(str) THEN Str(<<>>)
  ELSE Str(ReplaceBreaks(CollapseBlanks(trim(str.s))))

\* if (found) return this.cleanString(found);  followed by rest
cleanedOr(found, rest) == IF Truthy(found) THEN cleanString(found) ELSE rest

\* if (el) return this.cleanString(el.textContent);  followed by rest
cleanedTextOr(el, rest) == IF el # NoElement THEN cleanString(textContent(el)) ELSE rest

getTitle(d) ==
  cleanedOr(getMetaValue(d, "og:title"),
    cleanedTextOr(querySelector(d, "[itemprop=\"name\"]"),
      cleanedTextOr(querySelector(d, "h1"),
        cleanString(Str(d.title)))))

---------------------------------------------------------------------------
(* URLs.  The location is kept by its parts; location.href and document.URL *)
(* are protocol + "//" + hostname + pathname.  URL strings in the model     *)
(* hold no blank, backslash, port, user info or character that the URL      *)
(* parser would percent-encode.                                             *)

UpperCase == <<"A", "B", "C", "D", "E", "F", "G", "H", "I", "J", "K", "L", "M",
               "N", "O", "P", "Q", "R", "S", "T", "U", "V", "W", "X", "Y", "Z">>
LowerCase == <<"a", "b", "c", "d", "e", "f", "g", "h", "i", "j", "k", "l", "m",
               "n", "o", "p", "q", "r", "s", "t", "u", "v", "w", "x", "y", "z">>
IsUpper(c) == \E i \in 1..26 : UpperCase[i] = c
IsLower(c) == \E i \in 1..26 : LowerCase[i] = c
ToLower(c) == IF IsUpper(c) THEN LowerCase[CHOOSE i \in 1..26 : UpperCase[i] = c] ELSE c
LowerString(s) == [i \in 1..Len(s) |-> ToLower(s[i])]

\* the index of the first character of s that is in cs, or Len(s) + 1
IndexOfAny(s, cs) ==
  LET at == {i \in 1..Len(s) : s[i] \in cs}
  IN IF at = {} THEN Len(s) + 1 ELSE CHOOSE i \in at : \A j \in at : i <= j

\* the length of the scheme of s, or 0 when s starts with no "scheme:"
SchemeLength(s) ==
  LET colon == IndexOfAny(s, {":"})
  IN IF /\ colon <= Len(s)
        /\ colon > 1
        /\ IsUpper(s[1]) \/ IsLower(s[1])
        /\ \A i \in 2..(colon - 1) :
              IsUpper(s[i]) \/ IsLower(s[i]) \/ s[i] \in Digits \cup {"+", "-", "."}
     THEN colon - 1 ELSE 0

SpecialSchemes ==
  { <<"h", "t", "t", "p">>, <<"h", "t", "t", "p", "s">>, <<"f", "t", "p">>,
    <<"w", "s">>, <<"w", "s", "s">> }

\* the segments of a path between its slashes
RECURSIVE Segments(_)
Segments(path) ==
  LET slash == IndexOfAny(path, {"/"})
  IN IF slash > Len(path) THEN <<path>>
     ELSE <<Take(path, slash - 1)>> \o Segments(Drop(path, slash))

Dot == <<".">>
DotDot == <<".", ".">>

\* the path of the segments after "." and ".." are resolved; a final "." or ".."
\* leaves a trailing slash
RECURSIVE Resolved(_, _)
Resolved(done, segs) ==
  IF segs = <<>> THEN done
  ELSE LET seg == Head(segs)
           last == Len(segs) = 1
           popped == IF done = <<>> THEN <<>> ELSE Take(done, Len(done) - 1)
       IN IF seg = Dot THEN Resolved(IF last THEN Append(done, <<>>) ELSE done, Tail(segs))
          ELSE IF seg = DotDot
          THEN Resolved(IF last THEN Append(popped, <<>>) ELSE popped, Tail(segs))
          ELSE Resolved(Append(done, seg), Tail(segs))

RECURSIVE Joined(_)
Joined(segs) == IF segs = <<>> THEN <<>> ELSE <<"/">> \o Head(segs) \o Joined(Tail(segs))

\* an absolute path (it starts with a slash) with its dot segments removed and its
\* query and fragment kept
NormalPath(path) ==
  LET cut == IndexOfAny(path, {"?", "#"})
      segs == Resolved(<<>>, Segments(SubSeq(path, 2, cut - 1)))
  IN (IF segs = <<>> THEN <<"/">> ELSE Joined(segs)) \o Drop(path, cut - 1)

\* the directory of a path: up to and including its last slash
RECURSIVE Directory(_)
Directory(path) ==
  IF path = <<>> \/ path[Len(path)] = "/" THEN path ELSE Directory(Take(path, Len(path) - 1))

ForbiddenHostChars == {" ", "<", ">", "[", "]", "^", "|", "%", "#", "?", "@", ":"}

URLFailure == [t |-> "failure"]

\* scheme "://" host path for a special scheme: a failure when the host is empty
\* or holds a forbidden character
SpecialURL(scheme, afterSlashes) ==
  LET cut == IndexOfAny(afterSlashes, {"/", "?", "#"})
      host == LowerString(Take(afterSlashes, cut - 1))
      rest == Drop(afterSlashes, cut - 1)
      path == IF rest = <<>> \/ Head(rest) # "/" THEN <<"/">> \o rest ELSE rest
  IN IF host = <<>> \/ \E i \in 1..Len(host) : host[i] \in ForbiddenHostChars
     THEN URLFailure
     ELSE Str(scheme \o <<":", "/", "/">> \o host \o NormalPath(path))

RECURSIVE DropSlashes(_)
DropSlashes(s) == IF s # <<>> /\ Head(s) = "/" THEN DropSlashes(Tail(s)) ELSE s

\* new URL(url, base).href for the base protocol + "//" + hostname + pathname
URLhref(url, protocol, hostname, pathname) ==
  LET input == trim(url)
      n == SchemeLength(input)
      scheme == LowerString(Take(input, n))
      rest == Drop(input, n + 1)
      baseScheme == Take(protocol, Len(protocol) - 1)
      origin == protocol \o <<"/", "/">> \o hostname
      basePath == Take(pathname, IndexOfAny(pathname, {"?", "#"}) - 1)
      relative(ref) ==
        IF ref = <<>> THEN Str(origin \o pathname)
        ELSE IF startsWith(ref, <<"/", "/">>) THEN SpecialURL(baseScheme, DropSlashes(ref))
        ELSE IF Head(ref) = "/" THEN Str(origin \o NormalPath(ref))
        ELSE IF Head(ref) \in {"?", "#"} THEN Str(origin \o basePath \o ref)
        ELSE Str(origin \o NormalPath(Directory(basePath) \o ref))
  IN IF n = 0 THEN relative(input)
     ELSE IF scheme \notin SpecialSchemes THEN Str(scheme \o <<":">> \o rest)
     ELSE IF scheme = baseScheme /\ ~startsWith(rest, <<"/">>) THEN relative(rest)
     ELSE SpecialURL(scheme, DropSlashes(rest))

href(d) == d.protocol \o <<"/", "/">> \o d.hostname \o d.pathname

Http == <<"h", "t", "t", "p", ":", "/", "/">>
Https == <<"h", "t", "t", "p", "s", ":", "/", "/">>

\* resolveUrl: null for no or a blank URL, a TypeError for a value that is no
\* string (it has no trim method)
resolveTrimmed(d, u, parsed) ==
  IF u = <<>> THEN Null
  ELSE IF startsWith(u, Http) \/ startsWith(u, Https) THEN Str(u)
  ELSE IF startsWith(u, <<"/", "/">>) THEN Str(d.protocol \o u)
  ELSE IF parsed = URLFailure THEN Null ELSE parsed

resolveUrl(d, url) ==
  IF ~Truthy(url) THEN Null
  ELSE IF url.t # "string" THEN Thrown
  ELSE resolveTrimmed(d, trim(url.s),
                      URLhref(trim(url.s), d.protocol, d.hostname, d.pathname))

\* a URL attribute as its DOM property reflects it: '' when the attribute is
\* absent, the attribute resolved against the document (the URL of the document
\* for an empty attribute), and the attribute itself when it cannot be resolved
ReflectedOr(parsed, attr) == IF parsed = URLFailure THEN attr ELSE parsed

Reflected(d, attr) ==
  IF attr.t # "string" THEN Str(<<>>)
  ELSE ReflectedOr(URLhref(attr.s, d.protocol, d.hostname, d.pathname), attr)

\* element.src: a property of the elements that load a resource
src(d, el) ==
  IF el.tag \in {"img", "script", "iframe", "source", "video", "audio", "embed", "input"}
  THEN Reflected(d, el.srcAttr) ELSE Undefined

\* element.href: a string on <a> and <link>, an SVGAnimatedString on the SVG
\* elements that link, no property on any other element
elementHref(d, el) ==
  CASE el.tag \in {"a", "link", "area"} -> Reflected(d, el.hrefAttr)
    [] el.tag \in {"svg:a", "svg:image"} -> DomObject
    [] OTHER -> Undefined

---------------------------------------------------------------------------
(* URL, description and images *)

\* canonical && canonical.href
canonicalHref(d, canonical) ==
  IF canonical = NoElement THEN Null ELSE elementHref(d, canonical)

\* a cascade that would ask og:url before the canonical link
getCanonicalUrlOgFirst(d) ==
  Or(getMetaValue(d, "og:url"),
     Or(canonicalHref(d, querySelector(d, "link[rel=\"canonical\"]")), Str(href(d))))

getCanonicalUrl(d) ==
  Or(canonicalHref(d, querySelector(d, "link[rel=\"canonical\"]")),
     Or(getMetaValue(d, "og:url"), Str(href(d))))

getDescription(d) ==
  cleanedOr(getMetaValue(d, "og:description"),
    cleanedOr(getMetaValue(d, "description"),
      cleanedTextOr(querySelector(d, "[itemprop=\"description\"]"),
        Str(<<>>))))

minRatioTenths == 5         \* this.minRatio = 0.5
maxRatioTenths == 20        \* this.maxRatio = 2.0
minDimensionSize == 100

Range(seq) == { seq[i] : i \in 1..Len(seq) }

\* PushNew without the test of seenUrls: every resolved URL is pushed
PushAlways(images, imgUrl) == IF Truthy(imgUrl) THEN Append(images, imgUrl) ELSE images

\* if (imgUrl && !seenUrls.has(imgUrl)) { images.push(imgUrl); seenUrls.add(imgUrl) }
PushNew(images, imgUrl) ==
  IF Truthy(imgUrl) /\ imgUrl \notin Range(images) THEN Append(images, imgUrl) ELSE images

\* the forEach over the itemprop=image elements: the array of images after it,
\* or the exception of resolveUrl that ends it
RECURSIVE pushProductImages(_, _, _)
\* the body of the forEach from the resolved URL on, and the later iterations
pushProductImage(d, images, imgUrl, later) ==
  IF imgUrl = Thrown THEN Thrown
  ELSE pushProductImages(d, PushNew(images, imgUrl), later)

pushProductImages(d, images, els) ==
  IF els = <<>> THEN Arr(images)
  ELSE pushProductImage(d, images,
         resolveUrl(d, Or(Or(src(d, Head(els)), content(Head(els))),
                          elementHref(d, Head(els)))),
         Tail(els))

\* naturalWidth || scrollWidth || width || 0
FirstNonZero(a, b, c) == IF a # 0 THEN a ELSE IF b # 0 THEN b ELSE c

DataScheme == <<"d", "a", "t", "a", ":">>

\* imgCandidate with the bounds of the size and ratio filters excluded
imgCandidateStrict(imgSrc, imgUrl, w, h, seen) ==
  IF \/ ~Truthy(imgSrc)
     \/ startsWith(imgSrc.s, DataScheme)
     \/ ~Truthy(imgUrl)
     \/ imgUrl \in seen
     \/ w <= minDimensionSize
     \/ h <= minDimensionSize
     \/ 10 * w <= minRatioTenths * h
     \/ 10 * w >= maxRatioTenths * h
  THEN <<>>
  ELSE << [url |-> imgUrl, area |-> w * h] >>

\* the body of the loop over the <img> elements: the candidate of an image that
\* passes the filters
imgCandidate(imgSrc, imgUrl, w, h, seen) ==
  IF \/ ~Truthy(imgSrc)
     \/ startsWith(imgSrc.s, DataScheme)
     \/ ~Truthy(imgUrl)
     \/ imgUrl \in seen
     \/ w < minDimensionSize
     \/ h < minDimensionSize
     \/ 10 * w < minRatioTenths * h
     \/ 10 * w > maxRatioTenths * h
  THEN <<>>
  ELSE << [url |-> imgUrl, area |-> w * h] >>

\* the loop over the <img> elements: the candidates that pass the filters
RECURSIVE imgCandidates(_, _, _)
imgCandidates(d, seen, imgs) ==
  IF imgs = <<>> THEN <<>>
  ELSE imgCandidate(src(d, Head(imgs)), resolveUrl(d, src(d, Head(imgs))),
                    FirstNonZero(Head(imgs).naturalWidth, Head(imgs).scrollWidth,
                                 Head(imgs).width),
                    FirstNonZero(Head(imgs).naturalHeight, Head(imgs).scrollHeight,
                                 Head(imgs).height),
                    seen)
       \o imgCandidates(d, seen, Tail(imgs))

\* Array.prototype.sort((a, b) => b.area - a.area): stable, largest area first
RECURSIVE InsertByArea(_, _)
InsertByArea(sorted, c) ==
  IF sorted = <<>> THEN <<c>>
  ELSE IF Head(sorted).area >= c.area THEN <<Head(sorted)>> \o InsertByArea(Tail(sorted), c)
  ELSE <<c>> \o sorted

RECURSIVE SortByArea(_)
SortByArea(cands) ==
  IF cands = <<>> THEN <<>>
  ELSE InsertByArea(SortByArea(Take(cands, Len(cands) - 1)), cands[Len(cands)])

RECURSIVE pushCandidates(_, _)
pushCandidates(images, cands) ==
  IF cands = <<>> THEN images
  ELSE pushCandidates(PushNew(images, Head(cands).url), Tail(cands))

\* Priority 1 and 2 of getImages: the image of a meta tag, when it has one
pushMetaImage(d, images, metaImage) ==
  IF Truthy(metaImage) THEN PushNew(images, resolveUrl(d, metaImage)) ELSE images

\* pushPageImages without the sort: the candidates are pushed in document order
pushPageImagesUnsorted(d, productImages) ==
  IF productImages = Thrown THEN Thrown
  ELSE Arr(pushCandidates(productImages.items,
             imgCandidates(d, Range(productImages.items), querySelectorAll(d, "img"))))

\* Priority 4 of getImages after the array the first three left, or their exception
pushPageImages(d, productImages) ==
  IF productImages = Thrown THEN Thrown
  ELSE Arr(pushCandidates(productImages.items,
             SortByArea(imgCandidates(d, Range(productImages.items),
                                      querySelectorAll(d, "img")))))

\* the generic cascade of getImages
genericImages(d) ==
  pushPageImages(d,
    pushProductImages(d,
      pushMetaImage(d, pushMetaImage(d, <<>>, getMetaValue(d, "og:image")),
                    getMetaValue(d, "twitter:image")),
      querySelectorAll(d, "[itemprop=\"image\"]")))

HighResToken == <<".", "_", "A", "C", "_", "S", "L", "1", "5", "0", "0", "_", ".">>

\* the length of the match of \d+_\. at the start of s, or 0
DigitsTail(s) ==
  LET n == Len(DigitRun(s))
  IN IF n > 0 /\ Len(s) >= n + 2 /\ s[n + 1] = "_" /\ s[n + 2] = "." THEN n + 2 ELSE 0

\* the length of the match of /\._[A-Z]{2}_[A-Z]{2}\d+_\./ at the start of s, or 0
SizeCodeTwo(s) ==
  IF /\ Len(s) >= 7
     /\ s[1] = "." /\ s[2] = "_" /\ IsUpper(s[3]) /\ IsUpper(s[4])
     /\ s[5] = "_" /\ IsUpper(s[6]) /\ IsUpper(s[7])
     /\ DigitsTail(Drop(s, 7)) > 0
  THEN 7 + DigitsTail(Drop(s, 7)) ELSE 0

\* /\._[A-Z]{2}\d+_\./
SizeCodeOne(s) ==
  IF /\ Len(s) >= 4
     /\ s[1] = "." /\ s[2] = "_" /\ IsUpper(s[3]) /\ IsUpper(s[4])
     /\ DigitsTail(Drop(s, 4)) > 0
  THEN 4 + DigitsTail(Drop(s, 4)) ELSE 0

\* /\._S[XY]\d+_\./
SizeCodeS(s) ==
  IF /\ Len(s) >= 4
     /\ s[1] = "." /\ s[2] = "_" /\ s[3] = "S" /\ s[4] \in {"X", "Y"}
     /\ DigitsTail(Drop(s, 4)) > 0
  THEN 4 + DigitsTail(Drop(s, 4)) ELSE 0

\* url.replace(pattern, '._AC_SL1500_.'): the leftmost match is replaced, where
\* lengths[i] is the length of the match of the pattern at position i, or 0
ReplaceSizeCode(s, lengths) ==
  LET at == {i \in 1..Len(s) : lengths[i] > 0}
      i == Least(at)
  IN IF at = {} THEN s
     ELSE Take(s, i - 1) \o HighResToken \o Drop(s, i - 1 + lengths[i])

\* .replace(/\._[A-Z]{2}_[A-Z]{2}\d+_\./, '._AC_SL1500_.')
replaceSizeCodeTwo(s) ==
  ReplaceSizeCode(s, [i \in 1..Len(s) |-> SizeCodeTwo(Drop(s, i - 1))])

\* .replace(/\._[A-Z]{2}\d+_\./, '._AC_SL1500_.')
replaceSizeCodeOne(s) ==
  ReplaceSizeCode(s, [i \in 1..Len(s) |-> SizeCodeOne(Drop(s, i - 1))])

\* .replace(/\._S[XY]\d+_\./, '._AC_SL1500_.')
replaceSizeCodeS(s) ==
  ReplaceSizeCode(s, [i \in 1..Len(s) |-> SizeCodeS(Drop(s, i - 1))])

getHighResUrl(url) ==
  IF ~Truthy(url) THEN Null
  ELSE Str(replaceSizeCodeS(replaceSizeCodeOne(replaceSizeCodeTwo(url.s))))

\* The data-a-dynamic-image attribute is kept as what JSON.parse makes of its
\* text: Malformed, or the entries [url, width, height] of the object in key order.
DynamicImage(entries) == [t |-> "dynamicimage", entries |-> entries]

\* urls.sort(...)[0] over the entries of the parsed object
largestEntry(entries) ==
  SortByArea([i \in 1..Len(entries) |->
                [url |-> entries[i].url, area |-> entries[i].width * entries[i].height]])[1].url

\* What the try block of getAmazonImages leaves in imgUrl: the key of the largest
\* area, or nothing when the text does not parse or the object is empty
dynamicImageUrl(attr) ==
  IF attr = Malformed THEN Null
  ELSE IF attr.entries = <<>> THEN Null
  ELSE largestEntry(attr.entries)

\* if (dynamicImage) { try { ... } catch (e) {} }
dynamicImageOf(dynamicImage) ==
  IF Truthy(dynamicImage) THEN dynamicImageUrl(dynamicImage) ELSE Null

\* Method 1 of getAmazonImages: the main image of the viewer
landingImageUrl(d, landingImage) ==
  Or(Or(landingImage.oldHires, dynamicImageOf(landingImage.dynamicImage)),
     getHighResUrl(src(d, landingImage)))

ImagesI == <<"/", "i", "m", "a", "g", "e", "s", "/", "I", "/">>
PlayButton == <<"_", "p", "l", "a", "y", "-", "b", "u", "t", "t", "o", "n">>

\* thumbnailContainer.querySelectorAll('img[src*="/images/I/"]')
thumbnailsOf(d, container) ==
  LET inside(i) == /\ d.body[i].tag = "img"
                   /\ d.body[i].srcAttr # Undefined
                   /\ includes(d.body[i].srcAttr.s, ImagesI)
                   /\ container \in d.body[i].anc
      RECURSIVE pick(_)
      pick(i) == IF i > Len(d.body) THEN <<>>
                 ELSE (IF inside(i) THEN <<d.body[i]>> ELSE <<>>) \o pick(i + 1)
  IN pick(1)

\* the loop of Method 2 of getAmazonImages over the thumbnails
RECURSIVE pushThumbnails(_, _, _)
\* a limit that would stop the loop one image late
pushLaterThumbnailsLate(d, pushed, later) ==
  IF Len(pushed) > 5 THEN pushed ELSE pushThumbnails(d, pushed, later)

\* if (images.length >= 5) break;  and otherwise the later thumbnails
pushLaterThumbnails(d, pushed, later) ==
  IF Len(pushed) >= 5 THEN pushed ELSE pushThumbnails(d, pushed, later)

\* the body of the loop from the high resolution URL of a thumbnail on
pushThumbnail(d, images, imgUrl, later) ==
  IF Truthy(imgUrl) /\ includes(imgUrl.s, PlayButton)
  THEN pushThumbnails(d, images, later)
  ELSE pushLaterThumbnails(d, PushNew(images, imgUrl), later)

pushThumbnails(d, images, thumbs) ==
  IF thumbs = <<>> THEN images
  ELSE pushThumbnail(d, images, getHighResUrl(src(d, Head(thumbs))), Tail(thumbs))

\* Method 1 of getAmazonImages on the element it selects
pushLandingImage(d, landingImage) ==
  IF landingImage = NoElement THEN <<>>
  ELSE PushNew(<<>>, landingImageUrl(d, landingImage))

\* Method 2 of getAmazonImages on the container it selects
pushGallery(d, images, thumbnailContainer) ==
  IF thumbnailContainer = NoElement THEN images
  ELSE pushThumbnails(d, images, thumbnailsOf(d, thumbnailContainer))

\* Method 3 of getAmazonImages: og:image when nothing was found
pushOgImage(images, ogImage) ==
  IF images # <<>> THEN images
  ELSE IF Truthy(ogImage) THEN PushNew(<<>>, getHighResUrl(ogImage))
  ELSE <<>>

getAmazonImages(d) ==
  pushOgImage(
    pushGallery(d,
      pushLandingImage(d, querySelector(d, "#landingImage, #imgBlkFront, #ebooksImgBlkFront")),
      querySelector(d, "#altImages, #imageBlock_feature_div")),
    getMetaValue(d, "og:image"))

\* amazonImagesOr without the early return: the generic cascade adds its images
\* to those of the retailer's strategy
amazonImagesAndRest(amazonImages, rest) ==
  IF rest = Thrown THEN Thrown ELSE Arr(amazonImages \o rest.items)

\* if (amazonImages.length > 0) return amazonImages;  followed by the generic cascade
amazonImagesOr(amazonImages, rest) ==
  IF amazonImages # <<>> THEN Arr(amazonImages) ELSE rest

getImages(d) ==
  amazonImagesOr(IF isAmazon(d) THEN getAmazonImages(d) ELSE <<>>, genericImages(d))

\* the record parseCurrentPage returns, unless a getter threw
pageData(url, title, description, images, price, currency) ==
  IF images = Thrown THEN Thrown
  ELSE [url |-> url, title |-> title, description |-> description,
        images |-> images, price |-> price, currency |-> currency]

\* parseCurrentPage: the record of the six fields, or the exception of a getter
parseCurrentPage(d) ==
  pageData(getCanonicalUrl(d), getTitle(d), getDescription(d),
           getImages(d), getPrice(d), getCurrency(d))

---------------------------------------------------------------------------
(* Documents the parser is run on *)

MaxScripts == 3     \* JSON-LD scripts in a document
MaxPriceEls == 1    \* elements of a document that the generic price selectors match

\* the sequences of at most n elements of S
SeqsUpTo(S, n) == UNION {[1..k -> S] : k \in 0..n}

Meta(key, text) == [BaseEl EXCEPT !.tag = "meta", !.property = key, !.contentAttr = Str(text)]
Span(prop, text) == [BaseEl EXCEPT !.tag = "span", !.itemprop = prop, !.text = text]
MetaProp(prop, text) ==
  [BaseEl EXCEPT !.tag = "meta", !.itemprop = prop, !.contentAttr = Str(text)]
Template(prop) == [BaseEl EXCEPT !.tag = "template", !.itemprop = prop]
Classed(c, text) == [BaseEl EXCEPT !.tag = "span", !.class = {c}, !.text = text]
WithId(id, text) == [BaseEl EXCEPT !.tag = "span", !.id = id, !.text = text]
Script(json) ==
  [BaseEl EXCEPT !.tag = "script", !.type = "application/ld+json", !.json = json]

ShopHost == <<"s", "h", "o", "p", ".", "e", "x", "a", "m", "p", "l", "e">>
Www == <<"w", "w", "w", ".">>
AmazonDe == Www \o Amazon \o <<".", "d", "e">>
\* a storefront that domainCurrencyMap does not list
AmazonEg == Www \o Amazon \o <<".", "e", "g">>

EmptyDoc ==
  [protocol |-> <<"h", "t", "t", "p", "s", ":">>, hostname |-> ShopHost,
   pathname |-> <<"/", "p", "/", "1">>, title |-> <<>>, body |-> <<>>]

\* the price widget of the retailer: a .a-price container and the .a-offscreen
\* span in it, both with the given text
APriceBlock(text) ==
  LET box == Classed(ClassAPrice, text)
  IN << box, [Classed(ClassAOffscreen, text) EXCEPT !.anc = {box}] >>

\* JSON-LD of the specification's example: [{offers: [{price, priceCurrency}]}]
OfferJson ==
  Arr(<< Obj([offers |-> Arr(<< Obj([price |-> Str(<<"1", "9", ".", "9", "9">>),
                                     priceCurrency |-> USD]) >>)]) >>)
ProductJson == Obj([price |-> Str(<<"3", "1">>), priceCurrency |-> GBP])
NoOfferJson == Obj([name |-> Str(<<"x">>)])

ScriptKinds == {Script(Malformed), Script(NoOfferJson), Script(ProductJson), Script(OfferJson)}
ScriptParts == SeqsUpTo(ScriptKinds, MaxScripts)

Text_abc == <<"a", "b", "c">>

\* retailer pages with their price markup, and a page of another site
RetailerPriceParts ==
  { <<>>,
    APriceBlock(Text_abc),
    APriceBlock(<<"1", "1", ",", "5", "0", " ", "€">>),
    << Classed(ClassAPriceWhole, <<"1", "2", ",">>),
       Classed(ClassAPriceFraction, <<"9", "9">>) >>,
    << [BaseEl EXCEPT !.tag = "input", !.name = "displayedPrice",
                      !.valueAttr = Str(<<"1", "3", ",", "5", "0">>)] >> }

SchemaPriceParts ==
  { <<>>, << Template("price") >> }
  \cup { << Span("price", t) >> : t \in { <<>>, Text_abc, <<"2", "2">>, <<"-", "5">> } }
  \cup { << MetaProp("price", t) >> : t \in { <<>>, <<"x">>, <<"2", "1">> } }

MetaPriceParts ==
  { a \o b :
      a \in { <<>> } \cup { << Meta("product:price:amount", t) >> :
                              t \in { <<>>, <<"x">>, <<"4", "1">> } },
      b \in { <<>>, << Meta("og:price:amount", <<"4", "2">>) >> } }

PriceElKinds ==
  { Classed(ClassPrice, Text_abc),
    Classed(ClassProductPrice, <<"5", "1">>),
    WithId("price", <<"5", "2">>),
    Classed(ClassCapPrice, <<"5", "3">>),
    Classed(ClassAmount, <<"$", "5", "4">>) }
SelectorPriceParts == SeqsUpTo(PriceElKinds, MaxPriceEls)

\* where a page is served from, with the retailer's price markup on it
RetailerPrices ==
  { [hostname |-> ShopHost, part |-> <<>>] }
  \cup { [hostname |-> AmazonDe, part |-> r] : r \in RetailerPriceParts }

\* a few of each tier's cases: the source absent, a miss and a hit
FewRetailerPrices ==
  { [hostname |-> ShopHost, part |-> <<>>],
    [hostname |-> AmazonDe, part |-> APriceBlock(Text_abc)],
    [hostname |-> AmazonDe, part |-> APriceBlock(<<"1", "1", ",", "5", "0", " ", "€">>)] }
FewSchemaPrices == { <<>>, << Span("price", Text_abc) >>, << MetaProp("price", <<"2", "1">>) >> }
FewScripts == { <<>>, << Script(Malformed) >>, << Script(ProductJson) >> }
FewMetaPrices ==
  { <<>>, << Meta("product:price:amount", <<"x">>) >>, << Meta("og:price:amount", <<"4", "2">>) >> }
FewSelectorPrices == { <<>>, << Classed(ClassProductPrice, <<"5", "1">>) >> }

PriceDocsOf(R, S, J, M, E) ==
  { [EmptyDoc EXCEPT !.hostname = r.hostname, !.body = r.part \o sp \o sc \o m \o e] :
      r \in R, sp \in S, sc \in J, m \in M, e \in E }

\* every case of one tier with a few cases of each other tier
PriceDocs ==
  PriceDocsOf(RetailerPrices, FewSchemaPrices, FewScripts, FewMetaPrices, FewSelectorPrices)
  \cup PriceDocsOf(FewRetailerPrices, SchemaPriceParts, FewScripts, FewMetaPrices,
                   FewSelectorPrices)
  \cup PriceDocsOf(FewRetailerPrices, FewSchemaPrices, ScriptParts, FewMetaPrices,
                   FewSelectorPrices)
  \cup PriceDocsOf(FewRetailerPrices, FewSchemaPrices, FewScripts, MetaPriceParts,
                   FewSelectorPrices)
  \cup PriceDocsOf(FewRetailerPrices, FewSchemaPrices, FewScripts, FewMetaPrices,
                   SelectorPriceParts)

\* every storefront of domainCurrencyMap, with and without the www. prefix
TableHosts ==
  UNION { { domainCurrencyMap[i].domain, Www \o domainCurrencyMap[i].domain } :
            i \in 1..Len(domainCurrencyMap) }

SymbolParts ==
  { <<>> } \cup { << Classed(ClassAPriceSymbol, t) >> :
                    t \in { <<"$">>, <<"€">>, <<"£">>, <<"¥">>, <<"k", "r">> } }

SchemaCurrencyParts ==
  { <<>>, << Template("priceCurrency") >> }
  \cup { << Span("priceCurrency", t) >> : t \in { <<>>, <<"C", "H", "F">>, <<"$">> } }
  \cup { << MetaProp("priceCurrency", t) >> :
           t \in { <<>>, <<"N", "O", "K">>, <<"E", "u", "r", "o">> } }

MetaCurrencyParts ==
  { a \o b :
      a \in { <<>> } \cup { << Meta("product:price:currency", t) >> :
                              t \in { <<>>, <<"C", "A", "D">>, <<"d", "o", "l", "l", "a", "r">> } },
      b \in { <<>>, << Meta("og:price:currency", <<"S", "E", "K">>) >> } }

\* the retailer's price symbol on a storefront domainCurrencyMap does not list
RetailerSymbols ==
  { [hostname |-> ShopHost, part |-> <<>>] }
  \cup { [hostname |-> AmazonEg, part |-> sy] : sy \in SymbolParts }

FewRetailerSymbols ==
  { [hostname |-> ShopHost, part |-> <<>>],
    [hostname |-> AmazonEg, part |-> <<>>],
    [hostname |-> AmazonEg, part |-> << Classed(ClassAPriceSymbol, <<"k", "r">>) >>],
    [hostname |-> AmazonEg, part |-> << Classed(ClassAPriceSymbol, <<"£">>) >>] }
FewSchemaCurrencies ==
  { <<>>, << Span("priceCurrency", <<>>) >>, << Span("priceCurrency", <<"C", "H", "F">>) >> }
FewMetaCurrencies ==
  { <<>>, << Meta("product:price:currency", <<>>) >>,
    << Meta("og:price:currency", <<"S", "E", "K">>) >> }

CurrencyDocsOf(R, S, M, J) ==
  { [EmptyDoc EXCEPT !.hostname = r.hostname, !.body = r.part \o sc \o m \o s] :
      r \in R, sc \in S, m \in M, s \in J }

CurrencyDocs ==
  CurrencyDocsOf({ [hostname |-> h, part |-> sy] :
                     h \in TableHosts,
                     sy \in { <<>>, << Classed(ClassAPriceSymbol, <<"$">>) >> } },
                 { <<>>, << Span("priceCurrency", <<"C", "H", "F">>) >> },
                 { <<>> }, { <<>> })
  \cup CurrencyDocsOf(RetailerSymbols, FewSchemaCurrencies, FewMetaCurrencies, FewScripts)
  \cup CurrencyDocsOf(FewRetailerSymbols, SchemaCurrencyParts, FewMetaCurrencies, FewScripts)
  \cup CurrencyDocsOf(FewRetailerSymbols, FewSchemaCurrencies, MetaCurrencyParts, FewScripts)
  \cup CurrencyDocsOf(FewRetailerSymbols, FewSchemaCurrencies, FewMetaCurrencies, ScriptParts)

---------------------------------------------------------------------------
(* Operations *)

GetPrice ==
  /\ op' = "getPrice"
  /\ ret' = getPrice(doc)
  /\ UNCHANGED <<doc, arg>>

GetCurrency ==
  /\ op' = "getCurrency"
  /\ ret' = getCurrency(doc)
  /\ UNCHANGED <<doc, arg>>

\* the price and currency cascades on the documents above
InitCascade ==
  /\ doc \in PriceDocs \cup CurrencyDocs
  /\ arg = Null
  /\ op = "none"
  /\ ret = Null

NextCascade == GetPrice \/ GetCurrency

SpecCascade == InitCascade /\ [][NextCascade]_vars


\* JSON values handed to the JSON-LD walkers
MaxJsonDepth == 2   \* nesting of arrays and objects
MaxItems == 2       \* items of an array

JsonLeaves == { Null, Num(0, 0), Str(<<"7">>) }
EmptyObject == [k \in {} |-> Null]

JsonObjects(sub) ==
  { Obj(o @@ p @@ c) :
      o \in { EmptyObject } \cup { [offers |-> v] : v \in sub },
      p \in { EmptyObject, [price |-> Str(<<"5">>)], [price |-> Num(125, 1)] },
      c \in { EmptyObject, [priceCurrency |-> JPY] } }

RECURSIVE JsonValues(_)
JsonValues(depth) ==
  IF depth = 0 THEN JsonLeaves
  ELSE LET sub == JsonValues(depth - 1)
       IN sub \cup { Arr(items) : items \in SeqsUpTo(sub, MaxItems) } \cup JsonObjects(sub)

JsonInputs == JsonValues(MaxJsonDepth) \cup { OfferJson, ProductJson, NoOfferJson }

FindPriceInJsonLd ==
  /\ op' = "findPriceInJsonLd"
  /\ ret' = findPriceInJsonLd(arg)
  /\ UNCHANGED <<doc, arg>>

FindCurrencyInJsonLd ==
  /\ op' = "findCurrencyInJsonLd"
  /\ ret' = findCurrencyInJsonLd(arg)
  /\ UNCHANGED <<doc, arg>>

InitJsonLd ==
  /\ doc = EmptyDoc
  /\ arg \in JsonInputs
  /\ op = "none"
  /\ ret = Null

NextJsonLd == FindPriceInJsonLd \/ FindCurrencyInJsonLd

SpecJsonLd == InitJsonLd /\ [][NextJsonLd]_vars

\* documents with title sources
Heading(text) == [BaseEl EXCEPT !.tag = "h1", !.text = text]

TitleDocs ==
  { [EmptyDoc EXCEPT !.title = t, !.body = og \o n \o h] :
      t \in { <<>>, <<"T", " ", "t">> },
      og \in { <<>> } \cup { << Meta("og:title", x) >> :
                              x \in { <<>>, <<" ", " ">>, <<" ", "O", "\n", " ", "g", " ">> } },
      n \in { <<>> } \cup { << Span("name", x) >> :
                             x \in { <<>>, <<"\n", " ">>, <<"N", "\t", "\t", "n">> } },
      h \in { <<>> } \cup { << Heading(x) >> : x \in { <<>>, <<" ">>, <<"H">> } } }

GetTitle ==
  /\ op' = "getTitle"
  /\ ret' = getTitle(doc)
  /\ UNCHANGED <<doc, arg>>

InitTitle ==
  /\ doc \in TitleDocs
  /\ arg = Null
  /\ op = "none"
  /\ ret = Null

NextTitle == GetTitle

SpecTitle == InitTitle /\ [][NextTitle]_vars

\* documents for the whole parse: image sources of every tier
MaxProductImages == 2   \* elements with itemprop="image"
MaxImgs == 2            \* <img> elements of the page
MaxThumbs == 2          \* thumbnails of the retailer's gallery

Link(rel, url) == [BaseEl EXCEPT !.tag = "link", !.rel = rel, !.hrefAttr = Str(url)]
Img(url, w, h) ==
  [BaseEl EXCEPT !.tag = "img", !.srcAttr = Str(url), !.naturalWidth = w, !.naturalHeight = h]
ImgProp(url) == [BaseEl EXCEPT !.tag = "img", !.itemprop = "image", !.srcAttr = Str(url)]
SvgImage == [BaseEl EXCEPT !.tag = "svg:image", !.itemprop = "image"]

Url_a == <<"/", "i", "m", "g", "/", "a", ".", "j", "p", "g">>
Url_b == <<"b", ".", "j", "p", "g">>
Url_c == <<"c", ".", "p", "n", "g">>
Url_data == <<"d", "a", "t", "a", ":", "i", "m", "a", "g", "e", "/", "p", "n", "g", ";", "b", "a",
              "s", "e", "6", "4", ",", "A", "A">>
Url_hires == <<"h", "t", "t", "p", "s", ":", "/", "/", "c", "d", "n", ".", "e", "x", "a", "m", "p",
               "l", "e", "/", "h", ".", "j", "p", "g">>
Url_main == <<"/", "i", "m", "a", "g", "e", "s", "/", "I", "/", "m", ".", "_", "S", "Y", "3", "0",
              "0", "_", ".", "j", "p", "g">>
Url_d1 == <<"/", "i", "m", "a", "g", "e", "s", "/", "I", "/", "d", "1", ".", "j", "p", "g">>
Url_d2 == <<"/", "i", "m", "a", "g", "e", "s", "/", "I", "/", "d", "2", ".", "j", "p", "g">>
Url_thumb1 == <<"/", "i", "m", "a", "g", "e", "s", "/", "I", "/", "a", ".", "_", "S", "X", "3", "8",
                "_", ".", "j", "p", "g">>
Url_thumb2 == <<"/", "i", "m", "a", "g", "e", "s", "/", "I", "/", "b", ".", "_", "A", "C", "_", "U",
                "S", "4", "0", "_", ".", "j", "p", "g">>
Url_video == <<"/", "i", "m", "a", "g", "e", "s", "/", "I", "/", "v", "_", "p", "l", "a", "y", "-",
               "b", "u", "t", "t", "o", "n", ".", "p", "n", "g">>
Url_canonical == <<"/", "p", "/", "1", "?", "r", "e", "f", "=", "x">>
Text_shirt == <<"A", " ", " ", "s", "h", "i", "r", "t">>

HeadParts ==
  { c \o t \o i :
      c \in { <<>>, << Link("canonical", Url_canonical) >>, << Meta("og:url", Url_hires) >> },
      t \in { <<>>, << Meta("og:description", Text_shirt) >>,
              << Span("description", Text_shirt) >> },
      i \in { <<>>, << Meta("og:image", Url_a) >>, << Meta("twitter:image", Url_b) >> } }

ProductImageKinds ==
  { ImgProp(Url_a), MetaProp("image", Url_b), Link("icon", Url_c) , Template("image"), SvgImage }

ProductImageParts ==
  { [i \in 1..Len(q) |-> [q[i] EXCEPT !.itemprop = "image"]] :
      q \in SeqsUpTo(ProductImageKinds, MaxProductImages) }

\* the URL /i/<c>.jpg of one more picture
Url_img(c) == <<"/", "i", "/", c, ".", "j", "p", "g">>

\* an <img> whose natural size is not available, with its rendered size
Rendered(url, w, h) == [Img(url, 0, 0) EXCEPT !.width = w, !.height = h]

\* pictures on, inside and outside the bounds of the size and ratio filters
ImgKinds ==
  { Img(Url_a, 200, 200), Img(Url_b, 50, 50), Img(Url_data, 400, 400),
    Img(Url_img("1"), 100, 100), Img(Url_img("2"), 800, 400), Img(Url_img("3"), 400, 800),
    Img(Url_img("4"), 99, 300), Img(Url_img("5"), 201, 100), Img(Url_img("6"), 100, 201),
    Rendered(Url_img("7"), 150, 150) }

ImgParts == SeqsUpTo(ImgKinds, MaxImgs)

\* the main image of the retailer's viewer
LandingImage(hires, dynamic) ==
  [BaseEl EXCEPT !.tag = "img", !.id = "landingImage", !.srcAttr = Str(Url_main),
                 !.oldHires = hires, !.dynamicImage = dynamic]

TwoDynamicImages ==
  DynamicImage(<< [url |-> Str(Url_d1), width |-> 300, height |-> 300],
                  [url |-> Str(Url_d2), width |-> 500, height |-> 500] >>)

DynamicImages ==
  { Malformed, DynamicImage(<<>>), TwoDynamicImages }

LandingParts ==
  { <<>> }
  \cup { << LandingImage(Undefined, y) >> : y \in { Undefined } \cup DynamicImages }
  \cup { << LandingImage(h, Undefined) >> : h \in { Str(<<>>), Str(Url_hires) } }
  \cup { << LandingImage(h, TwoDynamicImages) >> : h \in { Str(<<>>), Str(Url_hires) } }

AltImages == [BaseEl EXCEPT !.id = "altImages"]
Thumb(url) == [BaseEl EXCEPT !.tag = "img", !.srcAttr = Str(url), !.anc = {AltImages}]

GalleryParts ==
  { <<>> } \cup { << AltImages >> \o g :
                    g \in SeqsUpTo({ Thumb(Url_thumb1), Thumb(Url_thumb2), Thumb(Url_video),
                                     Thumb(Url_a), Thumb(Url_d2) }, MaxThumbs) }

MetaName(name, text) == [BaseEl EXCEPT !.tag = "meta", !.name = name, !.contentAttr = Str(text)]

Text_name == <<"N", "\t", "\t", "n">>
Text_og == <<" ", "D", "\n", "\t", "d", " ">>
Text_meta == <<"M", " ", " ", "m", "\r">>
Text_span == <<"\n", " ", "S", " ", "\r", "\n", " ", "s", " ">>

\* the markup the title and the description are read from
TextParts ==
  { n \o og \o m \o e :
      n \in { <<>>, << Span("name", Text_name) >> },
      og \in { <<>> } \cup { << Meta("og:description", x) >> : x \in { <<>>, <<" ", " ">>, Text_og } },
      m \in { <<>>, << MetaName("description", Text_meta) >> },
      e \in { <<>> } \cup { << Span("description", x) >> : x \in { <<>>, Text_span } } }

MaxLinks == 2           \* <link> elements of the page

Url_og == <<"/", "o", "g">>

LinkKinds ==
  { Link("canonical", Url_canonical), Link("canonical", <<>>), Link("icon", Url_c),
    [Link("canonical", <<>>) EXCEPT !.hrefAttr = Undefined] }

\* the markup the URL of the page is read from
UrlParts ==
  { l \o og :
      l \in SeqsUpTo(LinkKinds, MaxLinks),
      og \in { <<>> } \cup { << Meta("og:url", x) >> : x \in { <<>>, Url_og, Url_hires } } }

MaxGallery == 7         \* thumbnails of a long gallery

\* a gallery of n thumbnails with n different pictures
LongGallery(n) ==
  << AltImages >> \o [i \in 1..n |-> Thumb(ImagesI \o <<DigitChar[i]>> \o <<".", "j", "p", "g">>)]

LongGalleryParts ==
  { l \o << AltImages >> \o v \o Tail(LongGallery(n)) :
      l \in { <<>>, << LandingImage(Str(Url_hires), Undefined) >> },
      v \in { <<>>, << Thumb(Url_video) >> },
      n \in 1..MaxGallery }

PageDocs ==
  { [EmptyDoc EXCEPT !.body = b] : b \in TextParts \cup UrlParts }
  \cup { [EmptyDoc EXCEPT !.hostname = AmazonDe, !.body = b] : b \in LongGalleryParts }
  \cup
  { [EmptyDoc EXCEPT !.body = hd \o g] :
      hd \in HeadParts, g \in { <<>>, << Img(Url_c, 300, 200) >> } }
  \cup { [EmptyDoc EXCEPT !.body = hd \o q \o g] :
      hd \in { <<>>, << Meta("og:image", Url_a) >>, << Meta("twitter:image", Url_b) >> },
      q \in ProductImageParts, g \in { <<>>, << Img(Url_c, 300, 200) >> } }
  \cup { [EmptyDoc EXCEPT !.body = hq \o g] :
      hq \in { <<>>, << Meta("og:image", Url_a), ImgProp(Url_c) >> }, g \in ImgParts }
  \cup { [EmptyDoc EXCEPT !.hostname = AmazonDe, !.body = hd \o l \o g] :
      hd \in { <<>>, << Meta("og:image", Url_thumb1) >>, << Meta("twitter:image", Url_b) >> },
      l \in LandingParts, g \in { <<>>, << AltImages, Thumb(Url_thumb1) >> } }
  \cup { [EmptyDoc EXCEPT !.hostname = AmazonDe, !.body = hd \o l \o g] :
      hd \in { <<>>, << Meta("og:image", Url_thumb1) >> },
      l \in { <<>>, << LandingImage(Undefined, TwoDynamicImages) >> }, g \in GalleryParts }

\* the parser as its constructor leaves it: the receiver of parseCurrentPage
PageParser ==
  [minRatio |-> minRatioTenths, maxRatio |-> maxRatioTenths,
   minDimensionSize |-> minDimensionSize]

\* a parse that would write the title it has found back to the document
ParseCurrentPageRetitling ==
  /\ op' = "parseCurrentPage"
  /\ ret' = parseCurrentPage(doc)
  /\ doc' = [doc EXCEPT !.title = getTitle(doc).s]
  /\ UNCHANGED arg

\* parseCurrentPage reads the document, the location and the fields of the
\* parser and assigns to none of them
ParseCurrentPage ==
  /\ op' = "parseCurrentPage"
  /\ ret' = parseCurrentPage(doc)
  /\ UNCHANGED <<doc, arg>>

InitPage ==
  /\ doc \in PageDocs
  /\ arg = PageParser
  /\ op = "none"
  /\ ret = Null

NextPage == ParseCurrentPage

SpecPage == InitPage /\ [][NextPage]_vars

\* price texts handed to the two normalizers
MaxGroups == 2      \* groups of three digits after the leading digits of an amount
MaxDigits == 9      \* digits of an amount, so that its hundredths stay below 2^31

AmountHeads == { <<"1">>, <<"1", "2">>, <<"3", "2", "9">>, <<"0">> }
AmountGroups == { <<"2", "3", "4">>, <<"0", "0", "0">>, <<"5", "6", "7">> }
AmountCents == { <<"5", "6">>, <<"0", "0">>, <<"0", "5">>, <<"9", "0">> }

\* the groups, each after the thousands separator
RECURSIVE Grouped(_, _)
Grouped(groups, thousands) ==
  IF groups = <<>> THEN <<>>
  ELSE <<thousands>> \o Head(groups) \o Grouped(Tail(groups), thousands)

\* the amounts written with the given thousands and decimal separators
AmountTexts(thousands, decimal) ==
  { hg[1] \o Grouped(hg[2], thousands) \o <<decimal>> \o c :
      hg \in {x \in AmountHeads \X SeqsUpTo(AmountGroups, MaxGroups) :
                Len(x[1]) + 3 * Len(x[2]) + 2 <= MaxDigits},
      c \in AmountCents }

\* the text of an element that shows a price twice, and texts of the same form
\* that are no repetition
DuplicatedTexts ==
  { d \o <<sep>> \o c \o t :
      d \in { <<"3", "2", "9">>, <<"3", "2">>, <<"1", "2">>, <<"0">> },
      sep \in { ".", "," },
      c \in { <<"0", "0">>, <<"9", "9">> },
      t \in { <<"3", "2", "9">>, <<"3">>, <<"3", "2", "9", "0">>, <<"4">>, <<"1", "3">> } }

NormalizerInputs ==
  { Str(<<"$">> \o a) : a \in AmountTexts(",", ".") }
  \cup { Str(a \o <<" ", "$">>) : a \in AmountTexts(",", ".") }
  \cup { Str(a) : a \in AmountTexts(".", ",") }
  \cup { Str(a \o <<" ", "€">>) : a \in AmountTexts(".", ",") }
  \cup { Str(<<"€">> \o a) : a \in AmountTexts(".", ",") }
  \cup { Str(a) : a \in AmountTexts(" ", ",") \cup AmountTexts(",", ",") \cup AmountTexts(".", ".") }
  \cup { Str(t) : t \in DuplicatedTexts }
  \cup { Str(t \o <<" ", "€">>) : t \in DuplicatedTexts }
  \cup { Null, Str(<<>>), Str(Text_abc), Str(<<"-", "5">>), Num(125, 1),
         Str(<<"1", ",", "2", "3", "4">>) }

ParsePrice ==
  /\ op' = "parsePrice"
  /\ ret' = parsePrice(arg)
  /\ UNCHANGED <<doc, arg>>

ParseAmazonPrice ==
  /\ op' = "parseAmazonPrice"
  /\ ret' = parseAmazonPrice(arg, doc.hostname)
  /\ UNCHANGED <<doc, arg>>

\* the normalizers on a price text, on the US and on a European storefront
InitNormalize ==
  /\ doc \in { [EmptyDoc EXCEPT !.hostname = Www \o AmazonCom],
               [EmptyDoc EXCEPT !.hostname = AmazonDe] }
  /\ arg \in NormalizerInputs
  /\ op = "none"
  /\ ret = Null

NextNormalize == ParsePrice \/ ParseAmazonPrice

SpecNormalize == InitNormalize /\ [][NextNormalize]_vars

\* URLs handed to resolveUrl: a start and a rest, on pages of both protocols
UrlStarts ==
  { <<>>, <<"/">>, <<"/", "/">>, <<".", ".", "/">>, <<".", "/">>, <<"?">>, <<"#">>,
    <<"/", "/">> \o Drop(Url_hires, 8) \o <<"/">>,
    Take(Url_hires, 19) \o <<"/">>,
    Http \o Drop(Url_hires, 8) \o <<"/">>,
    Https,
    Http,
    <<"H", "T", "T", "P", "S", ":", "/", "/", "C", "d", "n", ".", "e", "x", "a", "m", "p", "l", "e", "/">>,
    <<"f", "t", "p", ":", "/", "/">>,
    <<"m", "a", "i", "l", "t", "o", ":">>,
    <<"h", "t", "t", "p", "s", ":">> }

UrlRests ==
  { <<>>, Url_b, Tail(Url_a), <<"x", "/", ".", ".", "/">> \o Url_b, Url_b \o <<"?", "w", "=", "1">> }

UrlInputs ==
  { Str(a \o b) : a \in UrlStarts, b \in UrlRests }
  \cup { Str(<<" ">> \o Url_a \o <<" ">>), Str(<<" ", "\t">>), Null, Undefined, DomObject }

UrlDocs ==
  { [EmptyDoc EXCEPT !.protocol = p, !.pathname = n] :
      p \in { <<"h", "t", "t", "p", "s", ":">>, <<"h", "t", "t", "p", ":">> },
      n \in { <<"/", "p", "r", "o", "d", "u", "c", "t", "/", "1">>, <<"/">> } }

ResolveUrl ==
  /\ op' = "resolveUrl"
  /\ ret' = resolveUrl(doc, arg)
  /\ UNCHANGED <<doc, arg>>

InitResolve ==
  /\ doc \in UrlDocs
  /\ arg \in UrlInputs
  /\ op = "none"
  /\ ret = Null

NextResolve == ResolveUrl

SpecResolve == InitResolve /\ [][NextResolve]_vars

\* the answer of the listener: the page data, or the message of the exception
sendResponse(page) ==
  IF page = Thrown THEN [success |-> FALSE, error |-> "message"]
  ELSE [success |-> TRUE, data |-> page]

\* a parser that would remember the URLs of the answer before and leave them out
withoutSeen(page, sent) ==
  IF page = Thrown \/ sent = <<>> THEN page
  ELSE IF ~sent[Len(sent)].success THEN page
  ELSE [page EXCEPT !.images =
          Arr(SelectSeq(page.images.items,
                        LAMBDA u : \A i \in 1..Len(sent[Len(sent)].data.images.items) :
                                      sent[Len(sent)].data.images.items[i] # u))]

MaxMessages == 2        \* getPageInfo messages sent to the listener

OnMessageKeepingSeen(action) ==
  /\ op' = "onMessage"
  /\ arg' = [action |-> action]
  /\ IF action = "getPageInfo"
     THEN /\ Len(ret) < MaxMessages
          /\ ret' = Append(ret, sendResponse(withoutSeen(parseCurrentPage(doc), ret)))
     ELSE UNCHANGED ret
  /\ UNCHANGED doc

\* a listener without the try block: an exception of the parser leaves the
\* message without a response
OnMessageUncaught(action) ==
  /\ op' = "onMessage"
  /\ arg' = [action |-> action]
  /\ IF action = "getPageInfo" /\ parseCurrentPage(doc) # Thrown
     THEN /\ Len(ret) < MaxMessages
          /\ ret' = Append(ret, sendResponse(parseCurrentPage(doc)))
     ELSE UNCHANGED ret
  /\ UNCHANGED doc

\* the listener of the content script: the one parser of the page, which keeps
\* the three thresholds of its constructor and nothing else, answers each
\* getPageInfo message with a parse of the document; arg is the message handled
\* last and ret the responses sent so far
OnMessage(action) ==
  /\ op' = "onMessage"
  /\ arg' = [action |-> action]
  /\ IF action = "getPageInfo"
     THEN /\ Len(ret) < MaxMessages
          /\ ret' = Append(ret, sendResponse(parseCurrentPage(doc)))
     ELSE UNCHANGED ret
  /\ UNCHANGED doc

MessageActions == { "getPageInfo", "ping" }

InitListener ==
  /\ doc \in PageDocs
  /\ arg = Null
  /\ op = "none"
  /\ ret = <<>>

NextListener == \E action \in MessageActions : OnMessage(action)

SpecListener == InitListener /\ [][NextListener]_vars

---------------------------------------------------------------------------
(* The popup (src/js/popup.js).  Here doc is the popup: the current item   *)
(* of its state object, the elements its script writes, the defaultListId  *)
(* of the extension storage, and the calls of handleSubmit that have not   *)
(* returned, each with its locals and the await it stands at.  One action is one turn of  *)
(* the event loop: the code from one await to the next.                    *)

MaxPopupImages == 3     \* images of an extracted product
MaxCalls == 2           \* calls of handleSubmit that have not returned

PopupImage(i) == Str(<<"i", "m", "g", DigitChar[i + 1]>>)

PopupImages(n) == [i \in 1..n |-> PopupImage(i)]

\* what the awaits of extractPageInfo deliver: a rejection, no response, a
\* failure of the content script, or a product
PageInfoResponses ==
  { Thrown, Undefined, [success |-> FALSE] }
  \cup { [success |-> TRUE, data |-> [images |-> Undefined]] }
  \cup { [success |-> TRUE, data |-> [images |-> Arr(PopupImages(n))]] :
           n \in 0..MaxPopupImages }

ListIds == { "list1", "list2" }

StoredListIds == { "", "gone" } \cup ListIds

Response(status) == [t |-> "response", status |-> status]

\* what fetch delivers: a response of the server or a rejection
FetchOutcomes == { Thrown } \cup { Response(s) : s \in {200, 401, 403, 404, 500} }

ok(response) == response.status \in 200..299

\* the value of the dropdown once populateListSelect has filled it
populateListSelect(selectedListId) ==
  IF selectedListId = "" THEN "list1"
  ELSE IF selectedListId \in ListIds THEN selectedListId
  ELSE ""

Popup(defaultListId) ==
  [ images             |-> <<>>,
    selectedImageIndex |-> 0,
    selectedImage      |-> Str(<<>>),
    page               |-> "loading-page",
    extracting         |-> TRUE,
    addButtonDisabled  |-> FALSE,
    listSelect         |-> populateListSelect(defaultListId),
    defaultListId      |-> defaultListId,
    calls              |-> <<>> ]

showPage(p, pageId) == [p EXCEPT !.page = pageId]

showError(p) == showPage(p, "error-page")

updateImageDisplay(p) ==
  IF Len(p.images) = 0
  THEN [p EXCEPT !.selectedImage = Str(<<>>)]
  ELSE [p EXCEPT !.selectedImage =
          IF p.selectedImageIndex + 1 \in DOMAIN p.images
          THEN p.images[p.selectedImageIndex + 1]
          ELSE Undefined]

extractPageInfo(p) == [showPage(p, "loading-page") EXCEPT !.extracting = TRUE]

pageInfo(p, response) ==
  IF response = Thrown \/ response = Undefined
  THEN [showError(p) EXCEPT !.extracting = FALSE]
  ELSE IF ~response.success
  THEN [showError(p) EXCEPT !.extracting = FALSE]
  ELSE showPage(updateImageDisplay(
         [p EXCEPT !.images = IF response.data.images = Undefined THEN <<>>
                              ELSE response.data.images.items,
                   !.selectedImageIndex = 0,
                   !.extracting = FALSE]), "item-page")

navigateImagesUnwrapped(p, direction) ==
  IF Len(p.images) <= 1 THEN p
  ELSE updateImageDisplay(
         [p EXCEPT !.selectedImageIndex =
            IF p.selectedImageIndex + direction >= Len(p.images) THEN 0
            ELSE p.selectedImageIndex + direction])

navigateImages(p, direction) ==
  IF Len(p.images) <= 1 THEN p
  ELSE updateImageDisplay(
         [p EXCEPT !.selectedImageIndex =
            IF p.selectedImageIndex + direction < 0 THEN Len(p.images) - 1
            ELSE IF p.selectedImageIndex + direction >= Len(p.images) THEN 0
            ELSE p.selectedImageIndex + direction])

\* the form is submitted with its submit button, which a disabled button
\* does not do
CanSubmit(p) == ~p.addButtonDisabled

handleSubmitEnabled(p) ==
  IF p.listSelect = "" THEN p
  ELSE [p EXCEPT !.calls = Append(@, [listId |-> p.listSelect, at |-> "fetch",
                                    response |-> Undefined])]

\* handleSubmit up to its first await
handleSubmit(p) ==
  IF p.listSelect = "" THEN p
  ELSE [p EXCEPT !.addButtonDisabled = TRUE,
                 !.calls = Append(@, [listId |-> p.listSelect, at |-> "fetch",
                                    response |-> Undefined])]

\* the finally block, and the return of call i
finally(p, i) ==
  [p EXCEPT !.addButtonDisabled = FALSE,
            !.calls = SubSeq(@, 1, i - 1) \o SubSeq(@, i + 1, Len(@))]

fetchedAnyStatus(p, i, response) ==
  IF response = Thrown THEN finally(showError(p), i)
  ELSE [p EXCEPT !.calls[i].at = "json", !.calls[i].response = response]

\* call i after await fetch
fetched(p, i, response) ==
  IF response = Thrown THEN finally(showError(p), i)
  ELSE IF ok(response)
  THEN [p EXCEPT !.calls[i].at = "json", !.calls[i].response = response]
  ELSE IF response.status \in {401, 403, 404} THEN finally(showError(p), i)
  ELSE [p EXCEPT !.calls[i].at = "errorJson", !.calls[i].response = response]

\* call i after await response.json(); body is Thrown when the body is not JSON
jsonRead(p, i, body) ==
  IF p.calls[i].at = "errorJson" THEN finally(showError(p), i)
  ELSE IF body = Thrown THEN finally(showError(p), i)
  ELSE [p EXCEPT !.calls[i].at = "set"]

\* call i after await browser.storage.local.set
stored(p, i, outcome) ==
  IF outcome = Thrown THEN finally(showError(p), i)
  ELSE finally(showPage([p EXCEPT !.defaultListId = p.calls[i].listId],
                        "success-page"), i)

ExtractPageInfo ==
  /\ ~doc.extracting
  /\ op' = "extractPageInfo"
  /\ arg' = Undefined
  /\ doc' = extractPageInfo(doc)
  /\ ret' = Undefined

PageInfo(response) ==
  /\ doc.extracting
  /\ op' = "pageInfo"
  /\ arg' = response
  /\ doc' = pageInfo(doc, response)
  /\ ret' = Undefined

NavigateImages(direction) ==
  /\ op' = "navigateImages"
  /\ arg' = [direction |-> direction]
  /\ doc' = navigateImages(doc, direction)
  /\ ret' = Undefined

SelectList(listId) ==
  /\ op' = "selectList"
  /\ arg' = [listId |-> listId]
  /\ doc' = [doc EXCEPT !.listSelect = listId]
  /\ ret' = Undefined

HandleSubmit ==
  /\ CanSubmit(doc)
  /\ Len(doc.calls) < MaxCalls
  /\ op' = "handleSubmit"
  /\ arg' = [listId |-> doc.listSelect]
  /\ doc' = handleSubmit(doc)
  /\ ret' = Undefined

Fetched(i, response) ==
  /\ i \in DOMAIN doc.calls
  /\ doc.calls[i].at = "fetch"
  /\ op' = "fetched"
  /\ arg' = response
  /\ doc' = fetched(doc, i, response)
  /\ ret' = Undefined

JsonRead(i, body) ==
  /\ i \in DOMAIN doc.calls
  /\ doc.calls[i].at \in { "json", "errorJson" }
  /\ op' = "jsonRead"
  /\ arg' = body
  /\ doc' = jsonRead(doc, i, body)
  /\ ret' = Undefined

Stored(i, outcome) ==
  /\ i \in DOMAIN doc.calls
  /\ doc.calls[i].at = "set"
  /\ op' = "stored"
  /\ arg' = outcome
  /\ doc' = stored(doc, i, outcome)
  /\ ret' = Undefined

\* the turns in which a call of handleSubmit goes on after an await
Settle ==
  \E i \in 1..MaxCalls :
    \/ \E response \in FetchOutcomes : Fetched(i, response)
    \/ \E body \in { Thrown, Obj(<<>>) } : JsonRead(i, body)
    \/ \E outcome \in { Thrown, Undefined } : Stored(i, outcome)

InitPopup ==
  /\ doc \in { Popup(defaultListId) : defaultListId \in StoredListIds }
  /\ arg = Null
  /\ op = "none"
  /\ ret = Undefined

NextPopup ==
  \/ ExtractPageInfo
  \/ \E response \in PageInfoResponses : PageInfo(response)
  \/ \E direction \in { -1, 1 } : NavigateImages(direction)
  \/ \E listId \in ListIds : SelectList(listId)
  \/ HandleSubmit
  \/ Settle

SpecPopup == InitPopup /\ [][NextPopup]_vars

\* every promise a call of handleSubmit awaits settles, and the event loop
\* then runs the call on
SpecPopupFair == SpecPopup /\ WF_vars(Settle)

---------------------------------------------------------------------------
(* Properties of the whole parse *)

PageFields == {"url", "title", "description", "images", "price", "currency"}

\* C1: parseCurrentPage never throws: on every document it returns a record
\* with the six fields url, title, description, images, price and currency.
C1_ParseNeverThrows ==
  op = "parseCurrentPage" => ret # Thrown /\ DOMAIN ret = PageFields

---------------------------------------------------------------------------
(* Properties of the price cascade *)

\* the first value of a sequence that is a price, or else no price
FirstPrice(values) ==
  LET hits == {i \in 1..Len(values) : values[i] # Null}
  IN IF hits = {} THEN Null ELSE values[Least(hits)]

\* the first value of a sequence that is not empty, or else the default
FirstNonEmpty(values, default) ==
  LET hits == {i \in 1..Len(values) : Truthy(values[i])}
  IN IF hits = {} THEN default ELSE values[Least(hits)]

JsonLdScripts(d) == querySelectorAll(d, "script[type=\"application/ld+json\"]")

\* what each source of the price cascade yields on its own, in cascade order:
\* the retailer strategy, the content and the text of the itemprop=price element,
\* the JSON-LD scripts, the two price-amount meta tags, the generic selectors
SourcePrices(d) ==
  LET schema == querySelector(d, "[itemprop=\"price\"]")
      scripts == JsonLdScripts(d)
      selected(i) == querySelector(d, priceSelectors[i])
  IN << IF isAmazon(d) THEN getAmazonPrice(d) ELSE Null,
        IF schema = NoElement THEN Null ELSE parsePrice(content(schema)),
        IF schema = NoElement THEN Null ELSE parsePrice(textContent(schema)) >>
     \o [i \in 1..Len(scripts) |-> scriptPrice(scripts[i])]
     \o << parsePrice(getMetaValue(d, "product:price:amount")),
           parsePrice(getMetaValue(d, "og:price:amount")) >>
     \o [i \in 1..Len(priceSelectors) |->
           IF selected(i) = NoElement THEN Null ELSE parsePrice(textContent(selected(i)))]

\* C2: a tier of getPrice whose source is present but unparsable is a soft miss,
\* so getPrice returns no price only when no tier at all yields a parsable price.
C2_UnparsableTierIsSoftMiss ==
  (op = "getPrice" /\ ret = Null) =>
     \A i \in 1..Len(SourcePrices(doc)) : SourcePrices(doc)[i] = Null

\* C3: getPrice returns the price of the first tier, in cascade order, that yields
\* a parsable value.
C3_FirstParsableTierWins ==
  op = "getPrice" => ret = FirstPrice(SourcePrices(doc))

\* C7: every price getPrice returns is a number greater than or equal to 0.
C7_PriceIsNonNegative ==
  (op = "getPrice" /\ ret # Null) => (ret.t = "number" /\ ret.m >= 0)

---------------------------------------------------------------------------
(* Properties of the currency cascade *)

Letters ==
  { "A", "B", "C", "D", "E", "F", "G", "H", "I", "J", "K", "L", "M",
    "N", "O", "P", "Q", "R", "S", "T", "U", "V", "W", "X", "Y", "Z",
    "a", "b", "c", "d", "e", "f", "g", "h", "i", "j", "k", "l", "m",
    "n", "o", "p", "q", "r", "s", "t", "u", "v", "w", "x", "y", "z" }

IsCurrencyCode(v) ==
  v.t = "string" /\ Len(v.s) = 3 /\ \A i \in 1..Len(v.s) : v.s[i] \in Letters

\* C4: getCurrency always returns a 3-letter code.
C4_CurrencyIsThreeLetterCode ==
  op = "getCurrency" => IsCurrencyCode(ret)

\* C5: on the storefront of an entry of the retailer currency table, with or
\* without the www. prefix, getCurrency returns that entry's currency.
C5_StorefrontGetsItsCurrency ==
  op = "getCurrency" =>
     \A i \in 1..Len(domainCurrencyMap) :
        doc.hostname \in { domainCurrencyMap[i].domain, Www \o domainCurrencyMap[i].domain }
          => ret = domainCurrencyMap[i].currency

\* what each source of the currency cascade yields on its own, in cascade order:
\* the retailer domain table, the retailer price symbol, the itemprop=priceCurrency
\* element, the two price-currency meta tags, the JSON-LD scripts
SourceCurrencies(d) ==
  LET schema == querySelector(d, "[itemprop=\"priceCurrency\"]")
      scripts == JsonLdScripts(d)
      product == getMetaValue(d, "product:price:currency")
      og == getMetaValue(d, "og:price:currency")
  IN << IF isAmazon(d) THEN amazonCurrencyByDomain(d.hostname) ELSE Null,
        IF isAmazon(d) THEN amazonCurrencySymbol(d) ELSE Null,
        IF schema = NoElement THEN Null ELSE Or(content(schema), textContent(schema)),
        product, og >>
     \o [i \in 1..Len(scripts) |-> scriptCurrency(scripts[i])]

\* C6: getCurrency returns the value of the first source that determines a
\* currency, and 'EUR' when no source determines one.
C6_FirstCurrencySourceWins ==
  op = "getCurrency" => ret = FirstNonEmpty(SourceCurrencies(doc), EUR)

---------------------------------------------------------------------------
(* Properties of the JSON-LD tier *)

\* getPrice reaches its JSON-LD tier: neither the retailer strategy nor the
\* itemprop=price element has decided
PriceReachesJsonLd(d) ==
  LET schema == querySelector(d, "[itemprop=\"price\"]")
  IN /\ isAmazon(d) => getAmazonPrice(d) = Null
     /\ \/ schema = NoElement
        \/ ~Truthy(content(schema)) /\ parsePrice(textContent(schema)) = Null

\* getCurrency reaches its JSON-LD tier
CurrencyReachesJsonLd(d) ==
  /\ isAmazon(d) => ~Truthy(getAmazonCurrency(d))
  /\ querySelector(d, "[itemprop=\"priceCurrency\"]") = NoElement
  /\ ~Truthy(getMetaValue(d, "product:price:currency"))
  /\ ~Truthy(getMetaValue(d, "og:price:currency"))

\* the scripts that parse and hold a price, or a currency
PricedScripts(d) ==
  { i \in 1..Len(JsonLdScripts(d)) :
      /\ JsonLdScripts(d)[i].json # Malformed
      /\ findPriceInJsonLd(JsonLdScripts(d)[i].json) # Null }

CurrencyScripts(d) ==
  { i \in 1..Len(JsonLdScripts(d)) :
      /\ JsonLdScripts(d)[i].json # Malformed
      /\ Truthy(findCurrencyInJsonLd(JsonLdScripts(d)[i].json)) }

\* C9: a JSON-LD script that fails to parse is skipped alone.  When getPrice or
\* getCurrency reaches its JSON-LD tier it returns the value of the first script,
\* in document order, that parses and holds a value, whatever precedes it; when no
\* script holds one, getPrice returns what its later tiers yield and getCurrency
\* its default.
C9_MalformedScriptSkippedAlone ==
  /\ (op = "getPrice" /\ PriceReachesJsonLd(doc)) =>
        ret = IF PricedScripts(doc) # {}
              THEN findPriceInJsonLd(JsonLdScripts(doc)[Least(PricedScripts(doc))].json)
              ELSE priceFromMeta(doc)
  /\ (op = "getCurrency" /\ CurrencyReachesJsonLd(doc)) =>
        ret = IF CurrencyScripts(doc) # {}
              THEN findCurrencyInJsonLd(JsonLdScripts(doc)[Least(CurrencyScripts(doc))].json)
              ELSE EUR

\* getPrice has returned the price of a script that two malformed scripts precede
C9_Witness ==
  /\ op = "getPrice"
  /\ PriceReachesJsonLd(doc)
  /\ Len(JsonLdScripts(doc)) >= 3
  /\ JsonLdScripts(doc)[1].json = Malformed
  /\ JsonLdScripts(doc)[2].json = Malformed
  /\ Least(PricedScripts(doc) \cup {4}) = 3
  /\ ret = findPriceInJsonLd(JsonLdScripts(doc)[3].json)

\* the walker the specification describes: an array yields the result of its
\* first item whose walk is not absent; an object yields the walk of its offers
\* when that is not absent and otherwise its own field; a leaf yields absent
RECURSIVE RefPrice(_)
RefPrice(data) ==
  IF data.t = "array"
  THEN LET hits == { i \in 1..Len(data.items) : RefPrice(data.items[i]) # Null }
       IN IF hits = {} THEN Null ELSE RefPrice(data.items[Least(hits)])
  ELSE IF data.t = "object"
  THEN LET viaOffers == IF "offers" \in DOMAIN data.f THEN RefPrice(data.f["offers"]) ELSE Null
       IN IF viaOffers # Null THEN viaOffers
          ELSE IF "price" \in DOMAIN data.f THEN parsePrice(Str(String(data.f["price"])))
          ELSE Null
  ELSE Null

RECURSIVE RefCurrency(_)
RefCurrency(data) ==
  IF data.t = "array"
  THEN LET hits == { i \in 1..Len(data.items) : RefCurrency(data.items[i]) # Null }
       IN IF hits = {} THEN Null ELSE RefCurrency(data.items[Least(hits)])
  ELSE IF data.t = "object"
  THEN LET viaOffers == IF "offers" \in DOMAIN data.f THEN RefCurrency(data.f["offers"]) ELSE Null
       IN IF viaOffers # Null THEN viaOffers
          ELSE IF "priceCurrency" \in DOMAIN data.f /\ Truthy(data.f["priceCurrency"])
          THEN data.f["priceCurrency"]
          ELSE Null
  ELSE Null

\* C8: findPriceInJsonLd and findCurrencyInJsonLd equal the reference walker on
\* every JSON value.
C8_WalkersEqualReference ==
  /\ op = "findPriceInJsonLd" => ret = RefPrice(arg)
  /\ op = "findCurrencyInJsonLd" => ret = RefCurrency(arg)

---------------------------------------------------------------------------
(* Properties of the title *)

\* the cleaned text of each title source, in order: og:title, itemprop=name,
\* the first h1, document.title
SourceTitles(d) ==
  LET ogTitle == getMetaValue(d, "og:title")
      productTitle == querySelector(d, "[itemprop=\"name\"]")
      h1 == querySelector(d, "h1")
      blank == Str(<<>>)
  IN << IF ogTitle = Null THEN blank ELSE cleanString(ogTitle),
        IF productTitle = NoElement THEN blank ELSE cleanString(textContent(productTitle)),
        IF h1 = NoElement THEN blank ELSE cleanString(textContent(h1)),
        cleanString(Str(d.title)) >>

\* C10: getTitle returns the cleaned text of the first source whose cleaned text
\* is not empty; a source that is present but blank is skipped.
C10_FirstNonEmptyTitleWins ==
  op = "getTitle" => ret = FirstNonEmpty(SourceTitles(doc), Str(<<>>))

---------------------------------------------------------------------------
(* Properties of the images *)

\* the images of the result of a parse that returned
Images == ret.images.items

Parsed == op = "parseCurrentPage" /\ ret # Thrown

\* C11: the images list of a result never holds the same absolute URL twice,
\* two entries that resolve to the same absolute URL being the same URL; on the
\* generic cascade and on the retailer's image strategy alike.
C11_NoDuplicateImages ==
  Parsed =>
    \A i, j \in 1..Len(Images) :
      i # j => resolveUrl(doc, Images[i]) # resolveUrl(doc, Images[j])

\* a string that starts with a scheme
IsAbsoluteUrl(u) == u.t = "string" /\ SchemeLength(u.s) > 0

\* C13: every entry of the images list of a result is an absolute URL, one that
\* the URL resolver has produced, on the generic cascade and on the retailer's
\* image strategy (its og:image fallback included).
C13_ImagesAreAbsolute ==
  Parsed =>
    \A i \in 1..Len(Images) :
      IsAbsoluteUrl(Images[i]) /\ resolveUrl(doc, Images[i]) = Images[i]

\* the result came from the generic cascade of getImages
Generic == Parsed /\ (isAmazon(doc) => getAmazonImages(doc) = <<>>)

ImgWidth(img) == FirstNonZero(img.naturalWidth, img.scrollWidth, img.width)
ImgHeight(img) == FirstNonZero(img.naturalHeight, img.scrollHeight, img.height)

\* the filters of the heuristic tier as the specification states them: a src
\* that is not empty and no data: URL, both dimensions at least 100, and
\* 0.5 <= width / height <= 2.0
PassesFilters(d, img) ==
  /\ Truthy(src(d, img))
  /\ ~startsWith(src(d, img).s, DataScheme)
  /\ ImgWidth(img) >= 100
  /\ ImgHeight(img) >= 100
  /\ 2 * ImgWidth(img) >= ImgHeight(img)
  /\ ImgWidth(img) <= 2 * ImgHeight(img)

ProductImages(d) == querySelectorAll(d, "[itemprop=\"image\"]")
PageImgs(d) == querySelectorAll(d, "img")

\* the absolute URL each source of the generic cascade supplies, or null, by
\* tier: og:image, twitter:image, the itemprop=image elements in document order,
\* the <img> elements that pass the filters
SourceImages(d) ==
  << << resolveUrl(d, getMetaValue(d, "og:image")) >>,
     << resolveUrl(d, getMetaValue(d, "twitter:image")) >>,
     [i \in 1..Len(ProductImages(d)) |->
        resolveUrl(d, Or(Or(src(d, ProductImages(d)[i]), content(ProductImages(d)[i])),
                         elementHref(d, ProductImages(d)[i])))],
     [i \in 1..Len(PageImgs(d)) |->
        IF PassesFilters(d, PageImgs(d)[i]) THEN resolveUrl(d, src(d, PageImgs(d)[i]))
        ELSE Null] >>

\* the places of tier k that supply the URL u
Suppliers(tiers, k, u) == {i \in 1..Len(tiers[k]) : tiers[k][i] = u}

\* the tiers that supply the URL u
Tiers(tiers, u) == {k \in 1..4 : Suppliers(tiers, k, u) # {}}

\* the highest-priority tier of a URL that some tier supplies
Rank(tiers, u) == Least(Tiers(tiers, u))

\* the URLs the sources supply
Supplied(tiers) ==
  UNION {{tiers[k][i] : i \in 1..Len(tiers[k])} : k \in 1..4} \ {Null}

\* every supplied URL is listed once, nothing else is listed, the tiers follow
\* one another and the third tier keeps the document order
InOrder(tiers, images) ==
  /\ \A u \in Supplied(tiers) : Cardinality({i \in 1..Len(images) : images[i] = u}) = 1
  /\ \A i \in 1..Len(images) : images[i] \in Supplied(tiers)
  /\ \A i, j \in 1..Len(images) :
       i < j =>
         /\ Rank(tiers, images[i]) <= Rank(tiers, images[j])
         /\ (Rank(tiers, images[i]) = 3 /\ Rank(tiers, images[j]) = 3) =>
               Least(Suppliers(tiers, 3, images[i])) < Least(Suppliers(tiers, 3, images[j]))

\* C12: in the generic cascade every URL a source supplies is listed exactly
\* once, at the position of its highest-priority source: no URL of a lower tier
\* precedes a URL of a higher tier (og:image, twitter:image, itemprop=image,
\* heuristic <img>), and the itemprop=image URLs keep their document order.
C12_HighestPrioritySourceFirst == Generic => InOrder(SourceImages(doc), Images)

\* og:image and a later <img> that passes the filters supply the same URL; it is
\* listed first and entries of lower tiers follow it
C12_Witness ==
  /\ Generic
  /\ Len(Images) >= 3
  /\ Tiers(SourceImages(doc), Images[1]) = {1, 4}
  /\ Rank(SourceImages(doc), Images[2]) = 3
  /\ Rank(SourceImages(doc), Images[3]) = 4

\* the URL of an <img> that no higher tier supplies is listed if and only if an
\* <img> with that URL passes the filters
FilterDecides(d, tiers, images, imgs) ==
  \A k \in 1..Len(imgs) :
    (/\ Truthy(src(d, imgs[k]))
     /\ \A t \in 1..3 : Suppliers(tiers, t, resolveUrl(d, src(d, imgs[k]))) = {})
    => ((\E i \in 1..Len(images) : images[i] = resolveUrl(d, src(d, imgs[k])))
        <=> (\E m \in 1..Len(imgs) :
               /\ src(d, imgs[m]) = src(d, imgs[k])
               /\ PassesFilters(d, imgs[m])))

\* C14: in the heuristic tier the URL of an <img>, when no higher tier lists it,
\* is included if and only if an <img> with that URL has a src that is not empty
\* and no data: URL, a width and a height of at least 100 and a ratio
\* width/height in [0.5, 2.0], the bounds included.
C14_HeuristicFilter ==
  Generic => FilterDecides(doc, SourceImages(doc), Images, PageImgs(doc))

\* a picture of 800x400 is listed and a picture of 99x300 next to it is not
C14_Witness ==
  /\ Generic
  /\ Len(PageImgs(doc)) = 2
  /\ ImgWidth(PageImgs(doc)[1]) = 99 /\ ImgHeight(PageImgs(doc)[1]) = 300
  /\ ImgWidth(PageImgs(doc)[2]) = 800 /\ ImgHeight(PageImgs(doc)[2]) = 400
  /\ Images = << resolveUrl(doc, src(doc, PageImgs(doc)[2])) >>

\* the areas of the <img> elements that pass the filters and have the URL u
Areas(imgs, tiers, u) ==
  {ImgWidth(imgs[i]) * ImgHeight(imgs[i]) : i \in Suppliers(tiers, 4, u)}

\* the area of a heuristic-tier URL: the largest of its pictures
Area(imgs, tiers, u) ==
  CHOOSE a \in Areas(imgs, tiers, u) : \A b \in Areas(imgs, tiers, u) : a >= b

\* the entries of the heuristic tier are the last ones, the larger first
LargestFirst(imgs, tiers, images) ==
  \A i, j \in 1..Len(images) :
    (i < j /\ Rank(tiers, images[i]) = 4) =>
       /\ Rank(tiers, images[j]) = 4
       /\ Area(imgs, tiers, images[i]) >= Area(imgs, tiers, images[j])

\* C15: the heuristic-tier images come after every image of the three higher
\* tiers, in non-increasing order of area width * height.
C15_HeuristicByArea ==
  Generic => LargestFirst(PageImgs(doc), SourceImages(doc), Images)

\* two heuristic-tier pictures end the list, the larger one first although it is
\* the later one in the document
LaterLargerFirst(imgs, tiers, images) ==
  /\ Len(images) = 4
  /\ Rank(tiers, images[2]) = 3
  /\ Rank(tiers, images[3]) = 4
  /\ Rank(tiers, images[4]) = 4
  /\ Area(imgs, tiers, images[3]) > Area(imgs, tiers, images[4])
  /\ Least(Suppliers(tiers, 4, images[4])) < Least(Suppliers(tiers, 4, images[3]))

C15_Witness == Generic /\ LaterLargerFirst(PageImgs(doc), SourceImages(doc), Images)

\* C16: on a retailer page getImages returns the list of the retailer's image
\* strategy as it is, with no image of the generic cascade added, when that list
\* is not empty, and the result of the generic cascade when it is empty.
C16_RetailerOverride ==
  (Parsed /\ isAmazon(doc)) =>
     Images = IF getAmazonImages(doc) # <<>> THEN getAmazonImages(doc)
              ELSE genericImages(doc).items

\* the retailer's strategy has yielded its list on a page where the generic
\* cascade has images of its own to give
C16_Witness ==
  /\ Parsed
  /\ isAmazon(doc)
  /\ Len(getAmazonImages(doc)) >= 2
  /\ Images = getAmazonImages(doc)
  /\ genericImages(doc) # Thrown
  /\ \E i \in 1..Len(genericImages(doc).items) :
        \A j \in 1..Len(Images) : Images[j] # genericImages(doc).items[i]

\* C26: the list of the retailer's image strategy has at most 5 entries,
\* whatever the number of thumbnails of the gallery: the thumbnails are collected
\* only until the list holds 5 entries.
C26_AtMostFiveRetailerImages ==
  (Parsed /\ isAmazon(doc)) => Len(getAmazonImages(doc)) <= 5

\* a page with a main image and six thumbnails or more has been parsed: the
\* result holds the main image and the first four thumbnails
C26_Witness ==
  /\ Parsed
  /\ isAmazon(doc)
  /\ querySelector(doc, "#landingImage, #imgBlkFront, #ebooksImgBlkFront") # NoElement
  /\ Len(thumbnailsOf(doc, AltImages)) >= 6
  /\ Len(Images) = 5
  /\ Images[1] = Str(Url_hires)
  /\ Images[5] = src(doc, thumbnailsOf(doc, AltImages)[4])

---------------------------------------------------------------------------
(* Properties of the price normalizers *)

\* the parts of s between the occurrences of the character c
RECURSIVE SplitAt(_, _)
SplitAt(s, c) ==
  IF IndexOfAny(s, {c}) > Len(s) THEN <<s>>
  ELSE <<Take(s, IndexOfAny(s, {c}) - 1)>> \o SplitAt(Drop(s, IndexOfAny(s, {c})), c)

\* d{1,3} followed by groups of ddd, each after the thousands separator
WellGrouped(groups) ==
  /\ Len(groups[1]) \in 1..3
  /\ \A i \in 1..Len(groups) : AllDigits(groups[i])
  /\ \A i \in 2..Len(groups) : Len(groups[i]) = 3

\* a well-formed amount: grouped digits, the decimal separator, two digits
IsAmount(s, thousands, decimal) ==
  /\ Len(s) >= 4
  /\ s[Len(s) - 2] = decimal
  /\ AllDigits(Drop(s, Len(s) - 2))
  /\ WellGrouped(SplitAt(Take(s, Len(s) - 3), thousands))

\* the text without its currency sign and the blanks around it
Unsigned(s, sign) == trim(Filter(s, {s[i] : i \in 1..Len(s)} \ {sign}))

\* the decimal value of an amount with two fraction digits
AmountValue(s) == Normalized(IntOf(Filter(s, Digits)), 2)

\* C17: parsePrice and parseAmazonPrice map every well-formed US amount
\* d{1,3}(,ddd)*.dd with a $ sign to its decimal value, and every well-formed EU
\* amount d{1,3}(.ddd)*,dd with or without a € sign to its decimal value;
\* parseAmazonPrice does so for the EU amounts on a European storefront.
C17_WellFormedAmounts ==
  (op \in {"parsePrice", "parseAmazonPrice"} /\ arg.t = "string") =>
     /\ (includes(arg.s, <<"$">>) /\ IsAmount(Unsigned(arg.s, "$"), ",", "."))
          => ret = AmountValue(arg.s)
     /\ (IsAmount(Unsigned(arg.s, "€"), ".", ",")
         /\ (op = "parseAmazonPrice" => doc.hostname = AmazonDe))
          => ret = AmountValue(arg.s)

\* parseAmazonPrice has read '1.234,56 €' on the German storefront
C17_Witness ==
  /\ op = "parseAmazonPrice"
  /\ doc.hostname = AmazonDe
  /\ arg = Str(<<"1", ".", "2", "3", "4", ",", "5", "6", " ", "€">>)
  /\ ret = Num(123456, 2)

\* the form D s dd T of a duplicated price: digits, one separator, two digits and
\* at least one more digit
IsDuplicateForm(s) ==
  /\ DigitRun(s) # <<>>
  /\ Len(s) >= Len(DigitRun(s)) + 4
  /\ s[Len(DigitRun(s)) + 1] \in {".", ","}
  /\ AllDigits(Drop(s, Len(DigitRun(s)) + 1))

\* the value of a text D s dd T: D.dd when T is a prefix of D or D of T, and else
\* what the separator rule gives: the digits with a comma dropped, or the
\* decimal with a dot kept
DuplicateValue(D, sep, rest) ==
  IF startsWith(D, Drop(rest, 2)) \/ startsWith(Drop(rest, 2), D)
  THEN Normalized(IntOf(D \o Take(rest, 2)), 2)
  ELSE IF sep = "," THEN Num(IntOf(D \o rest), 0)
  ELSE Normalized(IntOf(D \o rest), Len(rest))

\* C18: for a cleaned text D s dd T in which T is a prefix of D or D a prefix of
\* T, parsePrice returns the decimal D.dd; a text of that form in which neither
\* is a prefix of the other goes through the ordinary separator rule.
C18_DuplicateCollapsed ==
  (op = "parsePrice" /\ arg.t = "string" /\ IsDuplicateForm(Unsigned(arg.s, "€"))) =>
     ret = DuplicateValue(DigitRun(Unsigned(arg.s, "€")),
                          Unsigned(arg.s, "€")[Len(DigitRun(Unsigned(arg.s, "€"))) + 1],
                          Drop(Unsigned(arg.s, "€"), Len(DigitRun(Unsigned(arg.s, "€"))) + 1))

\* parsePrice has collapsed '329,00329' to 329
C18_Witness ==
  /\ op = "parsePrice"
  /\ arg = Str(<<"3", "2", "9", ",", "0", "0", "3", "2", "9">>)
  /\ ret = Num(329, 0)

\* the text parsePrice works on: the digits, separators, signs and blanks of the
\* price text, with no blank at either end
PriceText(s) == trim(Filter(s, Digits \cup {".", ",", "-"} \cup WhiteSpace))

\* the text is one that the duplicate test collapses
IsCollapsed(s) ==
  /\ IsDuplicateForm(s)
  /\ \/ startsWith(DigitRun(s), Drop(s, Len(DigitRun(s)) + 3))
     \/ startsWith(Drop(s, Len(DigitRun(s)) + 3), DigitRun(s))

\* the value by the separator rule: a final separator before exactly two digits
\* at the end is the decimal point and every other separator is dropped; of any
\* other text the commas are dropped and the rest is read as a decimal
SeparatorValue(s) ==
  IF EndsSepTwoDigits(s, ".") \/ EndsSepTwoDigits(s, ",")
  THEN NumberOrNull(parseFloat(Filter(Take(s, Len(s) - 3), Digits \cup {"-"})
                               \o <<".">> \o Drop(s, Len(s) - 2)))
  ELSE NumberOrNull(parseFloat(Filter(s, Digits \cup {".", "-"})))

\* C24: after the duplicate check parsePrice takes a final '.' or ',' followed by
\* exactly two digits at the end of the text for the decimal point and drops
\* every other separator; of any other text it drops the commas and parses the
\* rest as a plain decimal; it returns null when the result is not a number.
C24_SeparatorRule ==
  (/\ op = "parsePrice"
   /\ arg.t = "string"
   /\ PriceText(arg.s) # <<>>
   /\ ~IsCollapsed(PriceText(arg.s)))
  => ret = SeparatorValue(PriceText(arg.s))

\* parseAmazonPrice reads the text by the EU convention: no $ sign in it and a
\* storefront other than amazon.com
EuConvention(d, s) ==
  /\ ~includes(s, <<"$">>)
  /\ ~(includes(d.hostname, AmazonCom) /\ ~includes(d.hostname, DotComDot))

\* the text parseAmazonPrice works on: the digits, separators and blanks of the
\* price text, with no blank at either end
AmazonPriceText(s) == trim(Filter(s, Digits \cup {".", ","} \cup WhiteSpace))

\* the value of a text that ends in a comma and two digits: the dots dropped,
\* that comma read as the decimal point
CommaDecimalValue(s) ==
  NumberOrNull(parseFloat(Filter(Take(s, Len(s) - 3), {s[i] : i \in 1..Len(s)} \ {"."})
                          \o <<".">> \o Drop(s, Len(s) - 2)))

\* C25: under the EU convention parseAmazonPrice drops the dots and reads the
\* comma as the decimal point when the text ends in a comma followed by two
\* digits; for every other text of the EU convention it returns the value that
\* parsePrice returns for that text.
C25_EuConvention ==
  (/\ op = "parseAmazonPrice"
   /\ arg.t = "string"
   /\ EuConvention(doc, arg.s)
   /\ AmazonPriceText(arg.s) # <<>>)
  => ret = IF EndsSepTwoDigits(AmazonPriceText(arg.s), ",")
           THEN CommaDecimalValue(AmazonPriceText(arg.s))
           ELSE parsePrice(arg)

---------------------------------------------------------------------------
(* Properties of resolveUrl *)

\* what standard resolution against the page's href makes of a value: a URL, or
\* a failure for what is no string or cannot be parsed
Resolution(d, v) ==
  IF v.t # "string" THEN URLFailure ELSE URLhref(v.s, d.protocol, d.hostname, d.pathname)

\* a value that is empty, blank or cannot be resolved
Unresolvable(d, v) == ~Truthy(v) \/ Resolution(d, v) = URLFailure \/ trim(v.s) = <<>>

\* C19: resolveUrl returns an http:// or https:// URL unchanged, a
\* protocol-relative URL prefixed with the page's protocol and every other form
\* resolved against the page's href; for an empty, blank or unresolvable input it
\* returns absent, and it never throws.
C19_ResolveUrl ==
  op = "resolveUrl" =>
    /\ ret # Thrown
    /\ Unresolvable(doc, arg) => ret = Null
    /\ ~Unresolvable(doc, arg) =>
         ret = IF startsWith(trim(arg.s), Http) \/ startsWith(trim(arg.s), Https)
               THEN Str(trim(arg.s))
               ELSE IF startsWith(trim(arg.s), <<"/", "/">>)
               THEN Str(doc.protocol \o trim(arg.s))
               ELSE Resolution(doc, arg)

---------------------------------------------------------------------------
(* Properties of the texts *)

\* no whitespace at either end, no newline or tab, no two blanks in a row
Collapsed(s) ==
  /\ s # <<>> => (s[1] \notin WhiteSpace /\ s[Len(s)] \notin WhiteSpace)
  /\ \A i \in 1..Len(s) : s[i] \notin {"\t", "\n", "\r"}
  /\ \A i \in 1..(Len(s) - 1) : ~(s[i] = " " /\ s[i + 1] = " ")

\* a defined string that is whitespace-collapsed
CollapsedString(v) == v.t = "string" /\ Collapsed(v.s)

\* C21: the title and the description of every result are defined strings,
\* possibly empty, with no whitespace at either end and every run of whitespace,
\* newlines and tabs included, reduced to one blank.
C21_TextsAreCollapsed ==
  Parsed => (CollapsedString(ret.title) /\ CollapsedString(ret.description))

\* a title with two tabs in it and a description with a blank at either end and
\* a newline and a tab in it have been cleaned
C21_Witness ==
  /\ Parsed
  /\ querySelector(doc, "[itemprop=\"name\"]") # NoElement
  /\ getMetaValue(doc, "og:description") = Str(Text_og)
  /\ ret.title = Str(<<"N", " ", "n">>)
  /\ ret.description = Str(<<"D", " ", "d">>)

\* the canonical links and the og:url meta tags, by their places in the document
CanonicalLinks(d) ==
  {i \in 1..Len(d.body) : d.body[i].tag = "link" /\ d.body[i].rel = "canonical"}

OgUrls(d) ==
  {i \in 1..Len(d.body) :
     d.body[i].tag = "meta" /\ (d.body[i].property = "og:url" \/ d.body[i].name = "og:url")}

\* the href of the canonical link and the value of og:url, '' when there is none;
\* of several the first in the document counts
LinkHref(d) ==
  IF CanonicalLinks(d) = {} THEN Str(<<>>)
  ELSE elementHref(d, d.body[Least(CanonicalLinks(d))])

OgUrl(d) ==
  IF OgUrls(d) = {} THEN Str(<<>>) ELSE content(d.body[Least(OgUrls(d))])

\* C22: the url of the result is the href of the canonical link when there is a
\* canonical link and its href is not empty, otherwise the value of og:url when
\* it is not empty, otherwise the current URL of the document.
C22_UrlPriority ==
  Parsed =>
    ret.url = IF LinkHref(doc).s # <<>> THEN LinkHref(doc)
              ELSE IF OgUrl(doc).s # <<>> THEN OgUrl(doc)
              ELSE Str(href(doc))

\* a canonical link with a href and an og:url are both given: the url is the
\* href of the link, resolved by the DOM
C22_Witness ==
  /\ Parsed
  /\ CanonicalLinks(doc) # {}
  /\ LinkHref(doc).s # <<>>
  /\ OgUrl(doc) = Str(Url_og)
  /\ ret.url = LinkHref(doc)
  /\ ret.url # Str(href(doc))

\* C23: extraction only reads: a call of parseCurrentPage leaves the document
\* (its elements, their attributes and texts), the location and the thresholds
\* of the parser (minRatio, maxRatio, minDimensionSize) as they were.
C23_ParseOnlyReads ==
  [][op' = "parseCurrentPage" => (doc' = doc /\ arg' = arg /\ arg' = PageParser)]_vars

\* a page with <img> elements has been parsed and two images are in the result
C23_Witness ==
  /\ Parsed
  /\ arg = PageParser
  /\ PageImgs(doc) # <<>>
  /\ Len(Images) >= 2

---------------------------------------------------------------------------
(* Properties of the listener *)

Envelope(d) ==
  IF parseCurrentPage(d) = Thrown THEN [success |-> FALSE, error |-> "message"]
  ELSE [success |-> TRUE, data |-> parseCurrentPage(d)]

\* C27: for every getPageInfo message the listener sends exactly one response,
\* {success: true, data} with the extracted product when extraction returns and
\* {success: false, error} when it throws; for a message with any other action
\* it sends none.
C27_OneResponsePerRequest ==
  [][IF arg'.action = "getPageInfo"
     THEN ret' = Append(ret, Envelope(doc))
     ELSE ret' = ret]_vars

\* a getPageInfo message has been answered with the product, or with the failure
\* on a page on which extraction throws, and a message with another action has
\* come after it
C27_Witness ==
  /\ op = "onMessage"
  /\ arg.action = "ping"
  /\ Len(ret) = 1
  /\ ret[1] = Envelope(doc)

---------------------------------------------------------------------------
(* Properties of the popup *)

\* the response carries a product
Delivers(response) ==
  /\ response # Thrown
  /\ response # Undefined
  /\ response.success

\* C28: after every extraction and every click on previous or next,
\* selectedImageIndex is an index of currentItem.images whenever that list is
\* not empty: an extraction that delivers a product sets it to 0 (one that
\* fails leaves the item as it was), next goes one up and from the last image
\* to the first, previous goes one down and from the first image to the last,
\* and with no image or one image a click changes nothing.
C28_SelectedImageIsValid ==
  [][/\ doc'.images # <<>> =>
          doc'.selectedImageIndex \in 0..(Len(doc'.images) - 1)
     /\ op' = "pageInfo" =>
          IF Delivers(arg')
          THEN doc'.selectedImageIndex = 0
          ELSE /\ doc'.images = doc.images
               /\ doc'.selectedImageIndex = doc.selectedImageIndex
     /\ op' = "navigateImages" =>
          IF Len(doc.images) <= 1
          THEN doc' = doc
          ELSE /\ doc'.images = doc.images
               /\ doc'.selectedImageIndex =
                    (doc.selectedImageIndex + arg'.direction) % Len(doc.images)]_vars

\* previous has been clicked on the first of the images of a product, and the
\* last one is selected
C28_Witness ==
  /\ op = "navigateImages"
  /\ arg = [direction |-> -1]
  /\ Len(doc.images) = MaxPopupImages
  /\ doc.selectedImageIndex = MaxPopupImages - 1
  /\ doc.selectedImage = PopupImage(MaxPopupImages)

\* call i of handleSubmit has received an OK response to its POST
ReturnedOk(p, i) ==
  /\ p.calls[i].response # Undefined
  /\ ok(p.calls[i].response)

\* call i of handleSubmit returns in this step after a response that is not
\* OK, or after a failure of the network
ReturnsFailed(i) ==
  /\ Len(doc'.calls) < Len(doc.calls)
  /\ \/ op' = "fetched"
     \/ /\ doc.calls[i].response # Undefined
        /\ ~ok(doc.calls[i].response)

\* C29: the success page is shown, and defaultListId is written to the
\* storage, only by a submission whose POST has returned an OK response, and
\* the value written is the list of that submission; when a submission ends
\* after a 401, 403, 404 or other response that is not OK, or after a failure
\* of the network, the error page is shown and the stored defaultListId is as
\* it was.
C29_SuccessOnlyAfterOk ==
  [][/\ (doc'.defaultListId # doc.defaultListId
          \/ (doc'.page = "success-page" /\ doc.page # "success-page")) =>
          \E i \in DOMAIN doc.calls :
            /\ ReturnedOk(doc, i)
            /\ doc'.defaultListId = doc.calls[i].listId
            /\ doc'.page = "success-page"
     /\ \A i \in DOMAIN doc.calls :
          ReturnsFailed(i) =>
            /\ doc'.page = "error-page"
            /\ doc'.defaultListId = doc.defaultListId]_vars

\* a submission to a list that was not the default has ended after an OK
\* response: the success page is shown and the list is the stored default
C29_Witness ==
  /\ op = "stored"
  /\ arg = Undefined
  /\ doc.page = "success-page"
  /\ doc.defaultListId = "list2"
  /\ doc.calls = <<>>

=============================================================================
